---- MODULE Spec2Model ----
(***************************************************************************)
(* A model of the embedded table store of Rust_DB (crate `testing`):       *)
(* the Database facade (commands/db.rs), the asynchronous WAL writer       *)
(* (commands/walwriter.rs), the WAL engine (commands/walengine.rs) and the *)
(* process driver (main.rs).                                               *)
(*                                                                         *)
(* Text is modelled as a sequence of tokens: an atom (a table name, a row  *)
(* id, a column name, a value: strings that hold no ':') or one of the     *)
(* punctuation tokens : { } , and the double quote.  A log record           *)
(* is built as format! builds it and taken apart as split(':') and         *)
(* serde_json::from_str take it apart.                                     *)
(*                                                                         *)
(* File operations are assumed to succeed in the specifications below: an  *)
(* open that fails is not among the steps of Spec and SpecQuery.           *)
(***************************************************************************)
EXTENDS Integers, Sequences, FiniteSets, TLC

VARIABLES
    tables,                 \* Database.tables: table name -> Table
    operations_since_save,  \* Database.operations_since_save
    saved_row_count,        \* Database.saved_row_count
    wal,                    \* Database.wal: the in-memory log
    wal_writer,             \* Database.wal_writer is Some(..)
    indexer,                \* Database.indexer: <<>> (None) or <<index>>
    bloom_filter,           \* Database.bloom_filter: <<>> (None) or <<bits>>
    channel,                \* the mpsc queue between WalWriter and its handle
    buffer,                 \* the writer thread's batch
    wal_log,                \* the lines of the file wal.log
    wal_archive,            \* the lines of the file wal_archive.log
    csv_files,              \* the snapshot files: table name -> csv content
    lock,                   \* the holder of the Mutex<Database>
    engine_pc,              \* the WAL engine thread's position in its cycle
    result,                 \* what the last facade call returned
    next_id,                \* history: the number of the next log record
    overflow_checks,        \* the build panics on integer overflow (debug
                            \* profile) or wraps (release profile)
    binary,                 \* the binary-file program: its Database, its
                            \* file and what it read back
    sync,                   \* the Mutex<Database> is poisoned; the index
                            \* engine thread sleeps between cycles or is dead
    lsm                     \* the LSM tree program (DB/src/main.rs): its
                            \* memtable, its files and what get returned

vars == <<tables, operations_since_save, saved_row_count, wal, wal_writer,
          indexer, bloom_filter, channel, buffer, wal_log, wal_archive,
          csv_files, lock, engine_pc, result, next_id, overflow_checks, binary, sync, lsm>>

----------------------------------------------------------------------------
(* Bounds and program constants *)

MaxOps == 3
MaxQueryOps == 4

save_threshold == 5
BatchSize == 10
BloomSize == 1000

----------------------------------------------------------------------------
(* Generic helpers *)

Range(s) == {s[i] : i \in DOMAIN s}

EmptyMap == [k \in {} |-> ""]

MapPut(m, k, v) == [x \in DOMAIN m \cup {k} |-> IF x = k THEN v ELSE m[x]]

\* Every enumeration of the finite set S: the orders a HashMap may iterate in.
Orders(S) == {s \in [1..Cardinality(S) -> S] : Range(s) = S}

\* All atoms the model uses, in lexicographic (byte) order.
LexOrder == <<"", "-7", "1", "1.5", "20", "30", "40", "TRUE", "a", "a:b",
              "a@x", "age", "alice@example.com", "b", "b@x", "bool",
              "datatypes", "email", "false", "float", "int", "name", "r1",
              "r2", "r3", "r4", "r5", "string", "t1", "t2", "true", "x",
              "zip">>

\* Vec::sort on a vector without duplicates whose elements are the set S.
Sorted(S) == SelectSeq(LexOrder, LAMBDA x : x \in S)

\* The string a sequence of tokens spells.
RECURSIVE Str(_)
Str(toks) == IF toks = <<>> THEN "" ELSE Head(toks) \o Str(Tail(toks))

----------------------------------------------------------------------------
(* The binary file format (binary_file_test/src/main.rs).  Strings are
   sequences of bytes, a file is a sequence of bytes.  A DataValue is a
   record [variant, v]: v is <<i>> for Int(i), the eight bytes of the bits
   (most significant first) for Float, <<1>> or <<0>> for Bool, the bytes of
   the string for Text. *)

\* LSMTree::new(wal_path, sstable_path, threshold) with no file on disk.
\* `inserted` is history: the insert calls so far; `got` is the key and the
\* result of a get that was the last call, <<>> for None and <<v>> for
\* Some(v), and <<>> when the last call was no get.
LSMTree_new(threshold) ==
    [threshold |-> threshold, memtable |-> << >>, sstable |-> <<>>, wal |-> <<>>,
     inserted |-> <<>>, got |-> <<>>]

NoLsm == LSMTree_new(5)

\* A Mutex that no thread has panicked on, the index engine thread alive.
NoPanic == [poisoned |-> FALSE, index_engine |-> "sleeping"]

\* Database::default(), no file, nothing read.
NoBinary == [db |-> EmptyMap, file |-> <<>>, loaded |-> <<>>, ops |-> 0]

Magic == <<82, 68, 66, 66>>

\* u32::to_le_bytes and u32::from_le_bytes.
U32LE(n) == <<n % 256, (n \div 256) % 256, (n \div 65536) % 256, (n \div 16777216) % 256>>
FromU32LE(b) == b[1] + 256 * b[2] + 65536 * b[3] + 16777216 * b[4]

\* i64::to_le_bytes and i64::from_le_bytes (two's complement), for the
\* integers of 32 bits.
I64LE(i) ==
    IF i >= 0 THEN U32LE(i) \o <<0, 0, 0, 0>>
    ELSE [k \in 1..4 |-> 255 - U32LE(0 - i - 1)[k]] \o <<255, 255, 255, 255>>
FromI64LE(b) ==
    IF b[8] < 128 THEN FromU32LE(SubSeq(b, 1, 4))
    ELSE 0 - FromU32LE([k \in 1..4 |-> 255 - b[k]]) - 1

Reverse(b) == [i \in 1..Len(b) |-> b[Len(b) + 1 - i]]

\* String::from_utf8_lossy on bytes of which the ASCII ones are valid: every
\* other byte becomes U+FFFD.
RECURSIVE from_utf8_lossy(_)
from_utf8_lossy(b) ==
    IF b = <<>> THEN <<>>
    ELSE (IF Head(b) < 128 THEN <<Head(b)>> ELSE <<239, 191, 189>>)
         \o from_utf8_lossy(Tail(b))

write_string(str) == U32LE(Len(str)) \o str

write_data_value_int32(value) ==
    IF value.variant = "Int" THEN <<0>> \o SubSeq(I64LE(value.v[1]), 1, 4)
    ELSE IF value.variant = "Float" THEN <<1>> \o Reverse(value.v)
    ELSE IF value.variant = "Bool" THEN <<2>> \o value.v
    ELSE <<3>> \o write_string(value.v)

write_data_value(value) ==
    IF value.variant = "Int" THEN <<0>> \o I64LE(value.v[1])
    ELSE IF value.variant = "Float" THEN <<1>> \o Reverse(value.v)
    ELSE IF value.variant = "Bool" THEN <<2>> \o value.v
    ELSE <<3>> \o write_string(value.v)

\* The entries of a row, written in the order `ord` of its HashMap.
RECURSIVE EntriesBytes(_, _)
EntriesBytes(data, ord) ==
    IF ord = <<>> THEN <<>>
    ELSE write_string(Head(ord)) \o write_data_value(data[Head(ord)])
         \o EntriesBytes(data, Tail(ord))

\* What the writer may emit for one row: one text for each iteration order.
RowBytes(row_id, row) ==
    {write_string(row_id) \o <<IF row.encrypted THEN 1 ELSE 0>>
       \o U32LE(Cardinality(DOMAIN row.data)) \o EntriesBytes(row.data, ord) :
         ord \in Orders(DOMAIN row.data)}

RECURSIVE RowsBytes(_, _)
RowsBytes(rows, ord) ==
    IF ord = <<>> THEN {<<>>}
    ELSE {a \o b : a \in RowBytes(Head(ord), rows[Head(ord)]),
                   b \in RowsBytes(rows, Tail(ord))}

RECURSIVE ColumnsBytes(_)
ColumnsBytes(columns) ==
    IF columns = <<>> THEN <<>>
    ELSE write_string(Head(columns)) \o ColumnsBytes(Tail(columns))

TableBytes(table_name, table) ==
    {write_string(table_name) \o U32LE(Len(table.columns)) \o ColumnsBytes(table.columns)
       \o U32LE(Cardinality(DOMAIN table.rows)) \o r :
         r \in UNION {RowsBytes(table.rows, ord) : ord \in Orders(DOMAIN table.rows)}}

RECURSIVE TablesBytes(_, _)
TablesBytes(tbs, ord) ==
    IF ord = <<>> THEN {<<>>}
    ELSE {a \o b : a \in TableBytes(Head(ord), tbs[Head(ord)]),
                   b \in TablesBytes(tbs, Tail(ord))}

\* The files write_database_to_binary may leave, one for each way the
\* HashMaps of the database iterate.
write_database_to_binary(db) ==
    {Magic \o U32LE(Cardinality(DOMAIN db)) \o t :
       t \in UNION {TablesBytes(db, ord) : ord \in Orders(DOMAIN db)}}

\* Read::read_exact of n bytes: fails at the end of the file.
ReadFail == [ok |-> FALSE, val |-> <<>>, rest |-> <<>>]
ReadOk(val, rest) == [ok |-> TRUE, val |-> val, rest |-> rest]
read_exact(bytes, n) ==
    IF Len(bytes) >= n THEN ReadOk(SubSeq(bytes, 1, n), SubSeq(bytes, n + 1, Len(bytes)))
    ELSE ReadFail

read_string(bytes) ==
    LET len_buf == read_exact(bytes, 4)
    IN IF ~len_buf.ok THEN ReadFail
       ELSE LET bytes_read == read_exact(len_buf.rest, FromU32LE(len_buf.val))
            IN IF ~bytes_read.ok THEN ReadFail
               ELSE ReadOk(from_utf8_lossy(bytes_read.val), bytes_read.rest)

read_data_value(bytes) ==
    LET variant == read_exact(bytes, 1)
    IN IF ~variant.ok THEN ReadFail
       ELSE IF variant.val[1] \in {0, 1}
       THEN LET buf == read_exact(variant.rest, 8)
            IN IF ~buf.ok THEN ReadFail
               ELSE IF variant.val[1] = 0
               THEN ReadOk([variant |-> "Int", v |-> <<FromI64LE(buf.val)>>], buf.rest)
               ELSE ReadOk([variant |-> "Float", v |-> Reverse(buf.val)], buf.rest)
       ELSE IF variant.val[1] = 2
       THEN LET buf == read_exact(variant.rest, 1)
            IN IF ~buf.ok THEN ReadFail
               ELSE ReadOk([variant |-> "Bool",
                            v |-> <<IF buf.val[1] # 0 THEN 1 ELSE 0>>], buf.rest)
       ELSE IF variant.val[1] = 3
       THEN LET str == read_string(variant.rest)
            IN IF ~str.ok THEN ReadFail
               ELSE ReadOk([variant |-> "Text", v |-> str.val], str.rest)
       ELSE ReadFail

\* The loop over the num_entries entries of a row.
RECURSIVE ReadEntries(_, _, _)
ReadEntries(bytes, n, row_data) ==
    IF n = 0 THEN ReadOk(row_data, bytes)
    ELSE LET col == read_string(bytes)
         IN IF ~col.ok THEN ReadFail
            ELSE LET val == read_data_value(col.rest)
                 IN IF ~val.ok THEN ReadFail
                    ELSE ReadEntries(val.rest, n - 1, MapPut(row_data, col.val, val.val))

\* The loop over the num_rows rows of a table.
RECURSIVE ReadRows(_, _, _)
ReadRows(bytes, n, rows) ==
    IF n = 0 THEN ReadOk(rows, bytes)
    ELSE LET row_id == read_string(bytes)
         IN IF ~row_id.ok THEN ReadFail
            ELSE LET flag_buf == read_exact(row_id.rest, 1)
                 IN IF ~flag_buf.ok THEN ReadFail
                    ELSE LET num == read_exact(flag_buf.rest, 4)
                         IN IF ~num.ok THEN ReadFail
                            ELSE LET e == ReadEntries(num.rest, FromU32LE(num.val), EmptyMap)
                                 IN IF ~e.ok THEN ReadFail
                                    ELSE ReadRows(e.rest, n - 1,
                                           MapPut(rows, row_id.val,
                                                  [data |-> e.val,
                                                   encrypted |-> flag_buf.val[1] # 0]))

RECURSIVE ReadColumns(_, _, _)
ReadColumns(bytes, n, columns) ==
    IF n = 0 THEN ReadOk(columns, bytes)
    ELSE LET col == read_string(bytes)
         IN IF ~col.ok THEN ReadFail
            ELSE ReadColumns(col.rest, n - 1, Append(columns, col.val))

\* The loop over the num_tables tables of the file.
RECURSIVE ReadTables(_, _, _)
ReadTables(bytes, n, tbs) ==
    IF n = 0 THEN ReadOk(tbs, bytes)
    ELSE LET table_name == read_string(bytes)
         IN IF ~table_name.ok THEN ReadFail
            ELSE LET nc == read_exact(table_name.rest, 4)
                 IN IF ~nc.ok THEN ReadFail
                    ELSE LET columns == ReadColumns(nc.rest, FromU32LE(nc.val), <<>>)
                         IN IF ~columns.ok THEN ReadFail
                            ELSE LET nr == read_exact(columns.rest, 4)
                                 IN IF ~nr.ok THEN ReadFail
                                    ELSE LET rows == ReadRows(nr.rest, FromU32LE(nr.val), EmptyMap)
                                         IN IF ~rows.ok THEN ReadFail
                                            ELSE ReadTables(rows.rest, n - 1,
                                                   MapPut(tbs, table_name.val,
                                                          [columns |-> columns.val,
                                                           rows |-> rows.val]))

\* io::Result<Database>: [ok, val].
read_database_from_binary(bytes) ==
    LET header == read_exact(bytes, 4)
    IN IF ~header.ok \/ header.val # Magic THEN ReadFail
       ELSE LET num_tables == read_exact(header.rest, 4)
            IN IF ~num_tables.ok THEN ReadFail
               ELSE ReadTables(num_tables.rest, FromU32LE(num_tables.val), EmptyMap)

----------------------------------------------------------------------------
(* The Table type (table/table.rs) *)

Table_new == [columns |-> <<>>, rows |-> EmptyMap, row_datatypes |-> EmptyMap]

Table_add_column(tb, c) ==
    IF c \in Range(tb.columns) THEN tb
    ELSE [tb EXCEPT !.columns = Append(@, c)]

Table_insert_row(tb, rid, data) ==
    IF rid \in DOMAIN tb.rows THEN tb
    ELSE [tb EXCEPT !.rows = MapPut(@, rid, data)]

\* Option<row>: <<>> is None.
Table_get_row(tb, rid) ==
    IF rid \in DOMAIN tb.rows THEN <<tb.rows[rid]>> ELSE <<>>

Table_add_datatype(tb, c, dt) ==
    LET old == IF "datatypes" \in DOMAIN tb.rows THEN tb.rows["datatypes"]
               ELSE EmptyMap
    IN [tb EXCEPT !.row_datatypes = MapPut(@, c, dt),
                  !.rows = MapPut(@, "datatypes", MapPut(old, c, dt))]

----------------------------------------------------------------------------
(* Text: format!, serde_json::to_string, str::split, serde_json::from_str *)

\* serde_json::to_string(&str): the value between double quotes.
DQ == "\""

\* The tokens of a string: of the strings of the model only "a:b" holds a
\* punctuation character.
Tokens(v) == IF v = "a:b" THEN <<"a", ":", "b">> ELSE <<v>>

JsonStr(v) == <<DQ>> \o Tokens(v) \o <<DQ>>

\* serde_json::to_string(&HashMap): the entries in the map's iteration
\* order `ord` (an enumeration of the map's keys).
RECURSIVE JsonEntries(_, _)
JsonEntries(m, ord) ==
    IF ord = <<>> THEN <<>>
    ELSE JsonStr(Head(ord)) \o <<":">> \o JsonStr(m[Head(ord)])
         \o (IF Tail(ord) = <<>> THEN <<>> ELSE <<",">>)
         \o JsonEntries(m, Tail(ord))

JsonMap(m, ord) == <<"{">> \o JsonEntries(m, ord) \o <<"}">>

\* str::split(':'): the parts between the ':' tokens (at least one part).
RECURSIVE SplitColon(_)
SplitColon(s) ==
    IF s = <<>> THEN << <<>> >>
    ELSE LET rest == SplitColon(Tail(s))
         IN IF Head(s) = ":" THEN << <<>> >> \o rest
            ELSE << <<Head(s)>> \o Head(rest) >> \o Tail(rest)

IsPunct(tok) == tok \in {":", "{", "}", ",", DQ}

\* serde_json::from_str::<String>: <<v>> when the text is a string between
\* two double quotes with no double quote inside, <<>> (Err) otherwise.
ParseJsonStr(s) ==
    IF Len(s) >= 2 /\ s[1] = DQ /\ s[Len(s)] = DQ
       /\ \A i \in 2..(Len(s) - 1) : s[i] # DQ
    THEN <<Str(SubSeq(s, 2, Len(s) - 1))>> ELSE <<>>

\* The entries of a JSON object after its '{': <<map>> when the text is
\* "k":"v" [, "k":"v"]* '}' and nothing else, <<>> (Err) otherwise.  The
\* keys and values are single atoms here: a part of a split at ':' holds
\* no ':' inside a string.
RECURSIVE ParseJsonEntries(_, _)
ParseJsonEntries(s, acc) ==
    IF Len(s) >= 8 /\ s[4] = ":"
       /\ ParseJsonStr(SubSeq(s, 1, 3)) # <<>>
       /\ ParseJsonStr(SubSeq(s, 5, 7)) # <<>>
    THEN LET acc2 == MapPut(acc, s[2], s[6])
         IN IF s[8] = "}" THEN (IF Len(s) = 8 THEN <<acc2>> ELSE <<>>)
            ELSE IF s[8] = "," THEN ParseJsonEntries(SubSeq(s, 9, Len(s)), acc2)
            ELSE <<>>
    ELSE <<>>

\* serde_json::from_str::<HashMap<String, String>>.
ParseJsonMap(s) ==
    IF Len(s) >= 2 /\ s[1] = "{"
    THEN IF s[2] = "}" THEN (IF Len(s) = 2 THEN <<EmptyMap>> ELSE <<>>)
         ELSE ParseJsonEntries(Tail(s), EmptyMap)
    ELSE <<>>

----------------------------------------------------------------------------
(* The Database facade (commands/db.rs), as operators on the value         *)
(*   w = [tables, operations_since_save, saved_row_count, wal, wal_writer, *)
(*        indexer, bloom_filter, channel, csv_files, next_id]              *)
(* of everything a facade call can read or write.  Each returns            *)
(* [w |-> the value afterwards, ret |-> what the call returns].            *)

\* A log record: its text, with the number of the mutation that emitted it
\* and the path it was emitted on (history, never read by the program).
Entry(id, via, text) == [id |-> id, via |-> via, text |-> text]

\* Result<..>: the status is "Ok" or the DatabaseError kind; the payload is
\* the rows a query returns (the strings a mutation echoes back are its own
\* arguments and are left out).
Ret(status, payload) == [status |-> status, payload |-> payload]

\* self.wal.push(op)
WalPush(w, text) ==
    [w EXCEPT !.wal = Append(@, Entry(w.next_id, "wal", text)),
              !.next_id = @ + 1]

\* WalWriter::log: self.sender.send(op)
WalWriter_log(w, text) ==
    [w EXCEPT !.channel = Append(@, Entry(w.next_id, "writer", text)),
              !.next_id = @ + 1]

\* if let Some(ref writer) = self.wal_writer { writer.log(op) } else { self.wal.push(op) }
LogOp(w, text) == IF w.wal_writer THEN WalWriter_log(w, text) ELSE WalPush(w, text)

check_table(w, t) == t \in DOMAIN w.tables

\* create_table without the check that the table exists.
create_table_unchecked(w, t) ==
    [w |-> WalPush([w EXCEPT !.tables = MapPut(@, t, Table_new)],
                   <<"create_table", ":", t>>),
     ret |-> Ret("Ok", <<>>)]

create_table(w, t) ==
    IF check_table(w, t)
    THEN [w |-> w, ret |-> Ret("TableAlreadyExists", <<>>)]
    ELSE [w |-> WalPush([w EXCEPT !.tables = MapPut(@, t, Table_new)],
                        <<"create_table", ":", t>>),
          ret |-> Ret("Ok", <<>>)]

\* A snapshot file: the header's columns (after "row_id") and the records,
\* each a row id and its fields.
CsvFile(header, records) == [header |-> header, records |-> records]

CsvRecord(rid, row, cols) ==
    [row_id |-> rid,
     fields |-> [i \in 1..Len(cols) |->
                   IF cols[i] \in DOMAIN row THEN row[cols[i]] ELSE ""]]

\* The csv reader (flexible = false) fails on a record whose length differs
\* from the header's.
CsvReadable(f) == \A i \in DOMAIN f.records : Len(f.records[i].fields) = Len(f.header)

RECURSIVE LoadRecords(_, _, _)
LoadRecords(tb, header, records) ==
    IF records = <<>> THEN tb
    ELSE LET rec == Head(records)
             data == [c \in Range(header) |->
                        rec.fields[CHOOSE i \in DOMAIN header : header[i] = c]]
         IN LoadRecords(Table_insert_row(tb, rec.row_id, data), header, Tail(records))

RECURSIVE AddColumns(_, _)
AddColumns(tb, cols) ==
    IF cols = <<>> THEN tb
    ELSE AddColumns(Table_add_column(tb, Head(cols)), Tail(cols))

load_table_from_file(w, t) ==
    LET f == w.csv_files[t]
    IN IF ~CsvReadable(f)
       THEN [w |-> w, ret |-> Ret("FileCreationError", <<>>)]
       ELSE [w |-> [w EXCEPT !.tables =
                      MapPut(@, t, LoadRecords(AddColumns(Table_new, f.header),
                                               f.header, f.records))],
             ret |-> Ret("Ok", <<>>)]

\* The preamble of every facade call on a table: a table that is not in
\* memory is loaded from <table>.csv when that file exists.
EnsureTable(w, t) ==
    IF check_table(w, t) THEN [w |-> w, ret |-> Ret("Ok", <<>>)]
    ELSE IF t \in DOMAIN w.csv_files THEN load_table_from_file(w, t)
    ELSE [w |-> w, ret |-> Ret("TableDoesNotExist", <<>>)]

\* add_column that appends the column whether the table has it or not.
add_column_push(w, t, c) ==
    LET e == EnsureTable(w, t)
    IN IF e.ret.status # "Ok" THEN e
       ELSE [w |-> LogOp([e.w EXCEPT !.tables[t].columns = Append(@, c)],
                         <<"add_column", ":", t, ":", c>>),
             ret |-> Ret("Ok", <<>>)]

add_column(w, t, c) ==
    LET e == EnsureTable(w, t)
    IN IF e.ret.status # "Ok" THEN e
       ELSE [w |-> LogOp([e.w EXCEPT !.tables[t] = Table_add_column(@, c)],
                         <<"add_column", ":", t, ":", c>>),
             ret |-> Ret("Ok", <<>>)]

\* The rows of a table as the file holds them; `ord` enumerates the ids.
RECURSIVE CsvRecords(_, _, _)
CsvRecords(rows, ord, cols) ==
    IF ord = <<>> THEN <<>>
    ELSE <<CsvRecord(Head(ord), rows[Head(ord)], cols)>>
         \o CsvRecords(rows, Tail(ord), cols)

\* Full save: header, the datatypes row if any, the other rows sorted by id.
save_table(w, t) ==
    IF t \notin DOMAIN w.tables
    THEN [w |-> w, ret |-> Ret("TableDoesNotExist", <<>>)]
    ELSE LET tb == w.tables[t]
             cols == Sorted(Range(tb.columns))
             dt == IF "datatypes" \in DOMAIN tb.rows THEN <<"datatypes">> ELSE <<>>
             ids == Sorted(DOMAIN tb.rows \ {"datatypes"})
         IN [w |-> [w EXCEPT !.csv_files =
                      MapPut(@, t, CsvFile(cols, CsvRecords(tb.rows, dt \o ids, cols)))],
             ret |-> Ret("Ok", <<>>)]

\* Append save: `ord` is the order in which table.rows iterates.
save_table_for_insert(w, t, ord) ==
    IF t \notin DOMAIN w.tables
    THEN [w |-> w, ret |-> Ret("TableDoesNotExist", <<>>)]
    ELSE LET tb == w.tables[t]
             cols == Sorted(Range(tb.columns))
             skipped == SubSeq(ord, w.saved_row_count + 1, Len(ord))
             unsaved == SelectSeq(skipped, LAMBDA rid : rid # "datatypes")
             recs == CsvRecords(tb.rows, unsaved, cols)
             file == IF t \in DOMAIN w.csv_files
                     THEN CsvFile(w.csv_files[t].header, w.csv_files[t].records \o recs)
                     ELSE CsvFile(cols, recs)
         IN [w |-> [w EXCEPT !.csv_files = MapPut(@, t, file),
                             !.saved_row_count = Cardinality(DOMAIN tb.rows)],
             ret |-> Ret("Ok", <<>>)]

\* `jord` is the order in which serde_json iterates `data`, `ord` the order
\* in which table.rows iterates at the append save.
insert_row(w, t, rid, data, jord, ord) ==
    LET e == EnsureTable(w, t)
    IN IF e.ret.status # "Ok" THEN e
       ELSE LET w1 == [e.w EXCEPT !.tables[t] = Table_insert_row(@, rid, data)]
                w2 == LogOp(w1, <<"insert_row", ":", t, ":", rid, ":">> \o JsonMap(data, jord))
                w3 == [w2 EXCEPT !.operations_since_save = @ + 1]
                w4 == IF w3.operations_since_save >= save_threshold
                      THEN [save_table_for_insert(w3, t, ord).w
                              EXCEPT !.operations_since_save = 0]
                      ELSE w3
            IN [w |-> w4, ret |-> Ret("Ok", <<>>)]

update_row(w, t, rid, c, v) ==
    LET e == EnsureTable(w, t)
    IN IF e.ret.status # "Ok" THEN e
       ELSE LET w1 == [e.w EXCEPT !.tables[t] = Table_add_column(@, c)]
            IN IF rid \notin DOMAIN w1.tables[t].rows
               THEN [w |-> w1, ret |-> Ret("RowDoesNotExist", <<>>)]
               ELSE LET w2 == [w1 EXCEPT !.tables[t].rows[rid] = MapPut(@, c, v)]
                        w3 == LogOp(w2, <<"update_row", ":", t, ":", rid, ":", c, ":">>
                                        \o JsonStr(v))
                        w4 == save_table(w3, t).w
                        w5 == [w4 EXCEPT !.operations_since_save = @ + 1]
                        w6 == IF w5.operations_since_save >= save_threshold
                              THEN [save_table(w5, t).w
                                      EXCEPT !.operations_since_save = 0]
                              ELSE w5
                    IN [w |-> w6, ret |-> Ret("Ok", <<>>)]

get_row(w, t, rid) ==
    LET e == EnsureTable(w, t)
    IN IF e.ret.status # "Ok" THEN e
       ELSE LET row == Table_get_row(e.w.tables[t], rid)
            IN IF row # <<>>
               THEN [w |-> e.w, ret |-> Ret("Ok", <<[row_id |-> rid, row |-> row[1], from |-> t]>>)]
               ELSE [w |-> e.w, ret |-> Ret("RowDoesNotExist", <<>>)]

\* str::parse::<i64>, str::parse::<f64> and str::to_lowercase on the atoms
\* of the model: of the atoms used, "1" and "-7" are the decimal integers,
\* "1.5" is the other float, and "TRUE" is the one with an upper-case letter.
IsI64(v) == v \in {"1", "-7", "20", "30", "40"}
IsF64(v) == IsI64(v) \/ v \in {"1.5"}
ToLowercase(v) == IF v = "TRUE" THEN "true" ELSE v

check_value_matches_exact_case(value, dtype) ==
    IF dtype = "int" THEN IsI64(value)
    ELSE IF dtype = "float" THEN IsF64(value)
    ELSE IF dtype = "bool" THEN value \in {"true", "false"}
    ELSE IF dtype = "string" THEN TRUE
    ELSE FALSE

check_value_matches(value, dtype) ==
    IF dtype = "int" THEN IsI64(value)
    ELSE IF dtype = "float" THEN IsF64(value)
    ELSE IF dtype = "bool" THEN ToLowercase(value) \in {"true", "false"}
    ELSE IF dtype = "string" THEN TRUE
    ELSE FALSE

\* Database.datatypes
datatypes == {"int", "float", "string", "bool"}

is_subset_vec_str_first_only(dts) == dts = <<>> \/ dts[1] \in datatypes

is_subset_vec_str(dts) == \A i \in DOMAIN dts : dts[i] \in datatypes

RECURSIVE add_column_each(_, _, _)
add_column_each(w, t, cols) ==
    IF cols = <<>> THEN [w |-> w, ret |-> Ret("Ok", <<>>)]
    ELSE LET r == add_column(w, t, Head(cols))
         IN IF r.ret.status # "Ok" THEN r ELSE add_column_each(r.w, t, Tail(cols))

RECURSIVE add_datatype_each(_, _, _)
add_datatype_each(tb, cols, dts) ==
    IF cols = <<>> \/ dts = <<>> THEN tb
    ELSE add_datatype_each(Table_add_datatype(tb, Head(cols), Head(dts)),
                           Tail(cols), Tail(dts))

\* The HashMap that add_columns builds from column_names.zip(datatypes).
RECURSIVE ZipMap(_, _)
ZipMap(cols, dts) ==
    IF cols = <<>> \/ dts = <<>> THEN EmptyMap
    ELSE MapPut(ZipMap(Tail(cols), Tail(dts)), Head(cols), Head(dts))

\* `jord`, `ord`: as for insert_row, for the insertion of the datatypes row.
add_columns(w, t, cols, dts, jord, ord) ==
    IF Len(cols) # Len(dts) THEN [w |-> w, ret |-> Ret("DataTypeError", <<>>)]
    ELSE LET e == EnsureTable(w, t)
         IN IF e.ret.status # "Ok" THEN e
            ELSE IF ~is_subset_vec_str(dts)
            THEN [w |-> e.w, ret |-> Ret("InvalidDataType", <<>>)]
            ELSE LET a == add_column_each(e.w, t, cols)
                 IN IF a.ret.status # "Ok" THEN a
                    ELSE LET w1 == [a.w EXCEPT !.tables[t] =
                                      add_datatype_each(@, cols, dts)]
                         IN insert_row(w1, t, "datatypes", ZipMap(cols, dts), jord, ord)

\* The first failure of the type check, which visits `data` in the order
\* `jord`; "Ok" when every value passes.
RECURSIVE TypeCheck(_, _, _)
TypeCheck(tb, data, jord) ==
    IF jord = <<>> THEN "Ok"
    ELSE LET col == Head(jord)
         IN IF col \in DOMAIN tb.row_datatypes
            THEN IF ~check_value_matches(data[col], tb.row_datatypes[col])
                 THEN "DataTypeError"
                 ELSE TypeCheck(tb, data, Tail(jord))
            ELSE "RowDoesNotExist"

insert_row_with_datatype_unchecked_first(w, t, rid, data, jord, ord) ==
    LET e == EnsureTable(w, t)
    IN IF e.ret.status # "Ok" THEN e
       ELSE IF Table_get_row(e.w.tables[t], rid) # <<>>
       THEN [w |-> e.w, ret |-> Ret("RowDoesNotExist", <<>>)]
       ELSE LET tc == TypeCheck(e.w.tables[t], data, jord)
                r == insert_row(e.w, t, rid, data, jord, ord)
            IN IF tc # "Ok" THEN [w |-> r.w, ret |-> Ret(tc, <<>>)] ELSE r

insert_row_with_datatype(w, t, rid, data, jord, ord) ==
    LET e == EnsureTable(w, t)
    IN IF e.ret.status # "Ok" THEN e
       ELSE IF Table_get_row(e.w.tables[t], rid) # <<>>
       THEN [w |-> e.w, ret |-> Ret("RowDoesNotExist", <<>>)]
       ELSE LET tc == TypeCheck(e.w.tables[t], data, jord)
            IN IF tc # "Ok" THEN [w |-> e.w, ret |-> Ret(tc, <<>>)]
               ELSE insert_row(e.w, t, rid, data, jord, ord)

----------------------------------------------------------------------------
(* The acceleration layer: Indexer.rs, BloomFilter.rs and their use *)

\* Indexer::add on the index `idx`: value -> Vec of row ids.  Each row id
\* carries the table whose row it was added for (history, never read by the
\* program: the index holds the row id alone).
Indexer_add(idx, key, rid, from) ==
    MapPut(idx, key, (IF key \in DOMAIN idx THEN idx[key] ELSE <<>>)
                     \o <<[row_id |-> rid, from |-> from]>>)

\* Indexer::get: <<>> is None.
Indexer_get(idx, key) == IF key \in DOMAIN idx THEN <<idx[key]>> ELSE <<>>

RECURSIVE IndexRows(_, _, _, _)
IndexRows(idx, t, rows, ord) ==
    IF ord = <<>> THEN idx
    ELSE IndexRows(IF "name" \in DOMAIN rows[Head(ord)]
                   THEN Indexer_add(idx, rows[Head(ord)]["name"], Head(ord), t)
                   ELSE idx,
                   t, rows, Tail(ord))

RECURSIVE IndexTables(_, _, _, _)
IndexTables(idx, tbs, tord, rords) ==
    IF tord = <<>> THEN idx
    ELSE IndexTables(IndexRows(idx, Head(tord), tbs[Head(tord)].rows, rords[Head(tord)]),
                     tbs, Tail(tord), rords)

\* build_indexes: `tord` is the order in which self.tables iterates,
\* rords[t] the order in which the rows of table t iterate.
build_indexes(w, tord, rords) ==
    [w EXCEPT !.indexer = <<IndexTables(EmptyMap, w.tables, tord, rords)>>]

\* The bytes of the values the model hashes (ASCII).
Bytes(v) ==
    IF v = "a" THEN <<97>>
    ELSE IF v = "b" THEN <<98>>
    ELSE IF v = "a@x" THEN <<97, 64, 120>>
    ELSE IF v = "b@x" THEN <<98, 64, 120>>
    ELSE IF v = "alice@example.com"
    THEN <<97, 108, 105, 99, 101, 64, 101, 120, 97, 109, 112, 108, 101, 46, 99, 111, 109>>
    ELSE <<>>

\* A usize (64 bits) is four limbs of 16 bits, the least significant first.
LimbBase == 65536

\* The usize of a number below 2^31.
U64(n) == <<n % LimbBase, n \div LimbBase, 0, 0>>

\* a * k + c, wrapping at 2^64 (k, c small).
RECURSIVE MulSmall(_, _, _)
MulSmall(a, k, c) ==
    IF a = <<>> THEN <<>>
    ELSE LET x == Head(a) * k + c
         IN <<x % LimbBase>> \o MulSmall(Tail(a), k, x \div LimbBase)

\* a + b + c, wrapping at 2^64.
RECURSIVE AddLimbs(_, _, _)
AddLimbs(a, b, c) ==
    IF a = <<>> THEN <<>>
    ELSE LET x == Head(a) + Head(b) + c
         IN <<x % LimbBase>> \o AddLimbs(Tail(a), Tail(b), x \div LimbBase)

\* The carry out of a + b + c: not 0 when the sum overflows the usize.
RECURSIVE AddCarry(_, _, _)
AddCarry(a, b, c) ==
    IF a = <<>> THEN c
    ELSE AddCarry(Tail(a), Tail(b), (Head(a) + Head(b) + c) \div LimbBase)

\* a % m for a small m.
RECURSIVE ModLimbs(_, _)
ModLimbs(a, m) ==
    IF a = <<>> THEN 0
    ELSE (ModLimbs(Tail(a), m) * LimbBase + Head(a)) % m

\* hash = ((hash << 5) + hash) + byte: `<<` drops the bits shifted out in
\* every build; each `+` that overflows panics in a build with overflow
\* checks and wraps in one without.  `overflow` tells whether one did.
RECURSIVE hash1_from(_, _)
hash1_from(hash, bytes) ==
    IF bytes = <<>> THEN [val |-> hash, overflow |-> FALSE]
    ELSE LET shl == MulSmall(hash, 32, 0)
             s1 == AddLimbs(shl, hash, 0)
             s2 == AddLimbs(s1, U64(Head(bytes)), 0)
         IN IF \/ AddCarry(shl, hash, 0) # 0
               \/ AddCarry(s1, U64(Head(bytes)), 0) # 0
            THEN [val |-> hash1_from(s2, Tail(bytes)).val, overflow |-> TRUE]
            ELSE hash1_from(s2, Tail(bytes))

BloomFilter_hash1(item) == hash1_from(U64(5381), Bytes(item))

\* hash = hash.wrapping_mul(31).wrapping_add(byte).  A usize is never the
\* empty sequence: that test has TLC evaluate the hash after each byte, as
\* the loop does, and not as one nested expression at the end.
RECURSIVE hash2_from(_, _)
hash2_from(hash, bytes) ==
    IF hash = <<>> \/ bytes = <<>> THEN hash
    ELSE hash2_from(AddLimbs(MulSmall(hash, 31, 0), U64(Head(bytes)), 0), Tail(bytes))

BloomFilter_hash2(item) == hash2_from(U64(0), Bytes(item))

\* hash1(item) panics in this build.
HashPanics(item, checks) == checks /\ BloomFilter_hash1(item).overflow

\* A filter is the set `bits` of the positions that are set, of BloomSize
\* positions; `added` is history, the items that add was called with.
BloomFilter_new == [bits |-> {}, added |-> {}]

\* BloomFilter::add that sets the first position only.
BloomFilter_add_hash1_only(bf, item) ==
    [bits |-> bf.bits \cup {ModLimbs(BloomFilter_hash1(item).val, BloomSize)},
     added |-> bf.added \cup {item}]

\* BloomFilter::add, for an item whose hash does not panic.
BloomFilter_add(bf, item) ==
    [bits |-> bf.bits \cup {ModLimbs(BloomFilter_hash1(item).val, BloomSize),
                            ModLimbs(BloomFilter_hash2(item), BloomSize)},
     added |-> bf.added \cup {item}]

\* BloomFilter::contains, for an item whose hash does not panic.
BloomFilter_contains(bf, item) ==
    /\ ModLimbs(BloomFilter_hash1(item).val, BloomSize) \in bf.bits
    /\ ModLimbs(BloomFilter_hash2(item), BloomSize) \in bf.bits

\* What a call of contains gives in a build.
ContainsOutcome(bf, item, checks) ==
    IF HashPanics(item, checks) THEN "panic"
    ELSE IF BloomFilter_contains(bf, item) THEN "true" ELSE "false"

\* The values of the email field of the rows of all tables.
Emails(tbs) ==
    UNION {{tbs[t].rows[rid]["email"] :
              rid \in {r \in DOMAIN tbs[t].rows : "email" \in DOMAIN tbs[t].rows[r]}} :
             t \in DOMAIN tbs}

RECURSIVE AddAll(_, _)
AddAll(bf, items) ==
    IF items = {} THEN bf
    ELSE LET item == CHOOSE x \in items : TRUE
         IN AddAll(BloomFilter_add(bf, item), items \ {item})

\* build_bloom_filter: the filter it builds does not depend on the order in
\* which the tables and rows iterate; an add that panics leaves
\* self.bloom_filter as it was.
build_bloom_filter(w) ==
    IF \E e \in Emails(w.tables) : HashPanics(e, w.overflow_checks)
    THEN [w |-> w, ret |-> Ret("panic", <<>>)]
    ELSE [w |-> [w EXCEPT !.bloom_filter = <<AddAll(BloomFilter_new, Emails(w.tables))>>],
          ret |-> Ret("Ok", <<>>)]

\* A returned row; `from` is the table whose row put the answering id into
\* the index, or the scanned table itself (history).
Hit(rid, row, from) == [row_id |-> rid, row |-> row, from |-> from]

\* The rows of `ids` (in this order) that exist in `rows`, up to the first
\* when return_many is false.
RECURSIVE IndexHits(_, _, _)
IndexHits(rows, ids, many) ==
    IF ids = <<>> THEN <<>>
    ELSE IF Head(ids).row_id \in DOMAIN rows
    THEN <<Hit(Head(ids).row_id, rows[Head(ids).row_id], Head(ids).from)>>
         \o (IF many THEN IndexHits(rows, Tail(ids), many) ELSE <<>>)
    ELSE IndexHits(rows, Tail(ids), many)

\* The full scan that does not stop at the first match.
RECURSIVE ScanHits_no_break(_, _, _, _, _, _, _)
ScanHits_no_break(t, rows, ord, column, value, many, bloom) ==
    IF ord = <<>> THEN <<>>
    ELSE LET rid == Head(ord)
             rest == ScanHits_no_break(t, rows, Tail(ord), column, value, many, bloom)
         IN IF column \in DOMAIN rows[rid] /\ rows[rid][column] = value
            THEN <<Hit(rid, rows[rid], t)>> \o rest
            ELSE rest

\* The full scan in the order `ord`.
RECURSIVE ScanHits(_, _, _, _, _, _, _)
ScanHits(t, rows, ord, column, value, many, bloom) ==
    IF ord = <<>> THEN <<>>
    ELSE LET rid == Head(ord)
             rest == ScanHits(t, rows, Tail(ord), column, value, many, bloom)
         IN IF column \notin DOMAIN rows[rid] THEN rest
            ELSE IF column = "email" /\ bloom # <<>>
                    /\ ~BloomFilter_contains(bloom[1], rows[rid][column])
            THEN rest
            ELSE IF rows[rid][column] = value
            THEN <<Hit(rid, rows[rid], t)>> \o (IF many THEN rest ELSE <<>>)
            ELSE rest

\* The full scan in the order `ord` reaches a bf.contains that panics.
RECURSIVE ScanPanics(_, _, _, _, _, _, _)
ScanPanics(rows, ord, column, value, many, bloom, checks) ==
    IF ord = <<>> THEN FALSE
    ELSE LET rid == Head(ord)
             rest == ScanPanics(rows, Tail(ord), column, value, many, bloom, checks)
         IN IF column \notin DOMAIN rows[rid] THEN rest
            ELSE IF column = "email" /\ bloom # <<>>
                    /\ HashPanics(rows[rid][column], checks)
            THEN TRUE
            ELSE IF column = "email" /\ bloom # <<>>
                    /\ ~BloomFilter_contains(bloom[1], rows[rid][column])
            THEN rest
            ELSE IF rows[rid][column] = value
            THEN (IF many THEN rest ELSE FALSE)
            ELSE rest

\* `ord` is the order in which the rows of the table iterate.
find_rows_by_value_in_table(w, t, column, value, many, ord) ==
    LET hit == IF w.indexer # <<>> THEN Indexer_get(w.indexer[1], value) ELSE <<>>
    IN IF hit # <<>>
       THEN IF t \in DOMAIN w.tables
            THEN [w |-> w, ret |-> Ret("Ok", IndexHits(w.tables[t].rows, hit[1], many))]
            ELSE [w |-> w, ret |-> Ret("TableDoesNotExist", <<>>)]
       ELSE IF t \in DOMAIN w.tables
               /\ ScanPanics(w.tables[t].rows, ord, column, value, many,
                             w.bloom_filter, w.overflow_checks)
       THEN [w |-> w, ret |-> Ret("panic", <<>>)]
       ELSE IF t \in DOMAIN w.tables
       THEN [w |-> w,
             ret |-> Ret("Ok", ScanHits(t, w.tables[t].rows, ord, column, value, many,
                                        w.bloom_filter))]
       ELSE [w |-> w, ret |-> Ret("TableDoesNotExist", <<>>)]

\* The index of the atom x in LexOrder: a < b as strings iff
\* StrPos(a) < StrPos(b).
StrPos(x) == CHOOSE i \in DOMAIN LexOrder : LexOrder[i] = x

\* Ten times the f64 that an atom with IsF64 parses to.
NumVal(v) ==
    IF v = "1" THEN 10 ELSE IF v = "-7" THEN 0 - 70 ELSE IF v = "1.5" THEN 15
    ELSE IF v = "20" THEN 200 ELSE IF v = "30" THEN 300
    ELSE IF v = "40" THEN 400 ELSE 0

condition_met_with_ne(operator, val, cond_value) ==
    LET num == IsF64(val) /\ IsF64(cond_value)
        l == IF num THEN NumVal(val) ELSE StrPos(val)
        r == IF num THEN NumVal(cond_value) ELSE StrPos(cond_value)
    IN IF operator = "==" THEN val = cond_value
       ELSE IF operator = "!=" THEN val # cond_value
       ELSE IF operator = ">" THEN l > r
       ELSE IF operator = "<" THEN l < r
       ELSE IF operator = ">=" THEN l >= r
       ELSE IF operator = "<=" THEN l <= r
       ELSE FALSE

condition_met_numbers_only(operator, val, cond_value) ==
    LET num == IsF64(val) /\ IsF64(cond_value)
    IN IF operator = "==" THEN val = cond_value
       ELSE IF operator = ">" THEN num /\ NumVal(val) > NumVal(cond_value)
       ELSE IF operator = "<" THEN num /\ NumVal(val) < NumVal(cond_value)
       ELSE IF operator = ">=" THEN num /\ NumVal(val) >= NumVal(cond_value)
       ELSE IF operator = "<=" THEN num /\ NumVal(val) <= NumVal(cond_value)
       ELSE FALSE

\* The match on `operator` of search_rows_by_condition_in_table: numbers
\* are compared when both sides parse as f64, strings otherwise.
condition_met(operator, val, cond_value) ==
    LET num == IsF64(val) /\ IsF64(cond_value)
        l == IF num THEN NumVal(val) ELSE StrPos(val)
        r == IF num THEN NumVal(cond_value) ELSE StrPos(cond_value)
    IN IF operator = "==" THEN val = cond_value
       ELSE IF operator = ">" THEN l > r
       ELSE IF operator = "<" THEN l < r
       ELSE IF operator = ">=" THEN l >= r
       ELSE IF operator = "<=" THEN l <= r
       ELSE FALSE

RECURSIVE SearchHits(_, _, _, _, _, _)
SearchHits(t, rows, ord, col, operator, cond_value) ==
    IF ord = <<>> THEN <<>>
    ELSE LET rid == Head(ord)
             rest == SearchHits(t, rows, Tail(ord), col, operator, cond_value)
         IN IF col \in DOMAIN rows[rid]
               /\ condition_met(operator, rows[rid][col], cond_value)
            THEN <<Hit(rid, rows[rid], t)>> \o rest
            ELSE rest

\* `parts` is condition.split_whitespace(); `ord` is the order in which the
\* rows of the table iterate.
search_rows_by_condition_in_table(w, t, parts, ord) ==
    IF t \notin DOMAIN w.tables THEN [w |-> w, ret |-> Ret("TableDoesNotExist", <<>>)]
    ELSE IF Len(parts) # 3 THEN [w |-> w, ret |-> Ret("Ok", <<>>)]
    ELSE [w |-> w,
          ret |-> Ret("Ok", SearchHits(t, w.tables[t].rows, ord,
                                       parts[1], parts[2], parts[3]))]

----------------------------------------------------------------------------
(* The WAL functions of the facade *)

\* One entry of flush_wal's loop on the tables `tbs`.  parts[i] of the code
\* is p[i + 1] here; indexing past the end of parts panics.
ReplayEntry(tbs, text) ==
    LET p == SplitColon(text)
        kind == Str(p[1])
    IN IF kind = "create_table"
       THEN IF Len(p) < 2 THEN [tables |-> tbs, panic |-> TRUE]
            ELSE [tables |-> tbs, panic |-> FALSE]
       ELSE IF kind = "add_column"
       THEN IF Len(p) < 2 THEN [tables |-> tbs, panic |-> TRUE]
            ELSE IF Str(p[2]) \notin DOMAIN tbs THEN [tables |-> tbs, panic |-> FALSE]
            ELSE IF Len(p) < 3 THEN [tables |-> tbs, panic |-> TRUE]
            ELSE [tables |-> [tbs EXCEPT ![Str(p[2])] = Table_add_column(@, Str(p[3]))],
                  panic |-> FALSE]
       ELSE IF kind = "insert_row"
       THEN IF Len(p) < 4 THEN [tables |-> tbs, panic |-> TRUE]
            ELSE LET data == ParseJsonMap(p[4])
                 IN IF data # <<>> /\ Str(p[2]) \in DOMAIN tbs
                    THEN [tables |-> [tbs EXCEPT ![Str(p[2])] =
                                        Table_insert_row(@, Str(p[3]), data[1])],
                          panic |-> FALSE]
                    ELSE [tables |-> tbs, panic |-> FALSE]
       ELSE IF kind = "update_row"
       THEN IF Len(p) < 5 THEN [tables |-> tbs, panic |-> FALSE]
            ELSE LET parsed == ParseJsonStr(p[5])
                     new_value == IF parsed # <<>> THEN parsed[1] ELSE Str(p[5])
                     t == Str(p[2])
                     rid == Str(p[3])
                 IN IF t \in DOMAIN tbs /\ rid \in DOMAIN tbs[t].rows
                    THEN [tables |-> [tbs EXCEPT ![t].rows[rid] =
                                        MapPut(@, Str(p[4]), new_value)],
                          panic |-> FALSE]
                    ELSE [tables |-> tbs, panic |-> FALSE]
       ELSE [tables |-> tbs, panic |-> FALSE]

\* flush_wal's loop over `entries`, stopping at a panic.
RECURSIVE ReplayAll(_, _)
ReplayAll(tbs, entries) ==
    IF entries = <<>> THEN [tables |-> tbs, panic |-> FALSE]
    ELSE LET r == ReplayEntry(tbs, Head(entries).text)
         IN IF r.panic THEN r ELSE ReplayAll(r.tables, Tail(entries))

flush_wal(w) ==
    LET r == ReplayAll(w.tables, w.wal)
    IN [w |-> [w EXCEPT !.tables = r.tables],
        ret |-> Ret(IF r.panic THEN "panic" ELSE "Ok", <<>>)]

\* load_wal parses every non-empty line of wal.log as a JSON object and
\* drops what it parsed: neither arm of its match touches the database.
RECURSIVE load_wal_lines(_, _)
load_wal_lines(w, lines) ==
    IF lines = <<>> THEN w
    ELSE LET row_data == ParseJsonMap(Head(lines).text)
         IN load_wal_lines(IF row_data # <<>> THEN w ELSE w, Tail(lines))

load_wal(w, lines) == [w |-> load_wal_lines(w, lines), ret |-> Ret("Ok", <<>>)]

\* persist_wal: the lines of wal.log afterwards.
persist_wal(w, lines) == lines \o w.wal

\* commit_wal that writes the batch before what the archive holds.
commit_wal_prepend(w, archive) ==
    [w |-> [w EXCEPT !.wal = <<>>], archive |-> w.wal \o archive, log |-> <<>>]

\* commit_wal that opens the archive with create, which truncates it.
commit_wal_truncating(w, archive) ==
    [w |-> [w EXCEPT !.wal = <<>>], archive |-> w.wal, log |-> <<>>]

\* commit_wal: archive, in-memory log and wal.log afterwards.
commit_wal(w, archive) ==
    [w |-> [w EXCEPT !.wal = <<>>], archive |-> archive \o w.wal, log |-> <<>>]

\* Database::new()
Database_new(csv, id) ==
    [tables |-> EmptyMap, operations_since_save |-> 0, saved_row_count |-> 0,
     wal |-> <<>>, wal_writer |-> FALSE, indexer |-> <<>>, bloom_filter |-> <<>>,
     channel |-> <<>>, csv_files |-> csv, next_id |-> id]

----------------------------------------------------------------------------
(* The state machine *)

\* What a facade call sees.
World ==
    [tables |-> tables, operations_since_save |-> operations_since_save,
     saved_row_count |-> saved_row_count, wal |-> wal, wal_writer |-> wal_writer,
     indexer |-> indexer, bloom_filter |-> bloom_filter, channel |-> channel,
     csv_files |-> csv_files, next_id |-> next_id,
     overflow_checks |-> overflow_checks]

SetWorld(w) ==
    /\ tables' = w.tables
    /\ operations_since_save' = w.operations_since_save
    /\ saved_row_count' = w.saved_row_count
    /\ wal' = w.wal
    /\ wal_writer' = w.wal_writer
    /\ indexer' = w.indexer
    /\ bloom_filter' = w.bloom_filter
    /\ channel' = w.channel
    /\ csv_files' = w.csv_files
    /\ next_id' = w.next_id
    /\ overflow_checks' = overflow_checks
    /\ binary' = binary
    /\ sync' = sync
    /\ lsm' = lsm

NoResult == [op |-> "none", status |-> "Ok", payload |-> <<>>]

\* A caller thread runs one facade call `op` with outcome r under the lock;
\* at most `limit` log records are emitted in a run.
Call(op, r, limit) ==
    /\ lock = "free"
    /\ r.w.next_id <= limit + 1
    /\ SetWorld(r.w)
    /\ result' = [op |-> op, status |-> r.ret.status, payload |-> r.ret.payload]
    /\ UNCHANGED <<buffer, wal_log, wal_archive, lock, engine_pc>>

\* The iteration orders of the rows of table t once `rid` is among them, for
\* a call that inserts one row: the order is read only by the append save,
\* which runs when the counter reaches the threshold.
RowOrdersWith(w, t, rid) ==
    LET e == EnsureTable(w, t)
    IN IF e.ret.status = "Ok" /\ w.operations_since_save + 1 >= save_threshold
       THEN Orders(DOMAIN e.w.tables[t].rows \cup {rid})
       ELSE {<<>>}

RowOrders(w, t) == Orders(IF t \in DOMAIN w.tables THEN DOMAIN w.tables[t].rows ELSE {})

\* Every row over the columns C and the values V.
RowsOver(C, V) == UNION {[D -> V] : D \in SUBSET C}

\* The orders in which build_indexes may visit the rows of every table.
AllRowOrders(w) ==
    {f \in [DOMAIN w.tables -> UNION {Orders(DOMAIN w.tables[t].rows) : t \in DOMAIN w.tables}] :
       \A t \in DOMAIN w.tables : f[t] \in Orders(DOMAIN w.tables[t].rows)}

\* The facade calls of a caller thread.
DoCreateTable(t, limit) == Call("create_table", create_table(World, t), limit)

DoAddColumn(t, c, limit) == Call("add_column", add_column(World, t, c), limit)

DoAddColumns(t, c, dt, limit) ==
    \E ord \in RowOrdersWith(World, t, "datatypes") :
      Call("add_columns", add_columns(World, t, <<c>>, <<dt>>, <<c>>, ord), limit)

\* add_columns with several columns: the datatypes row holds one entry for
\* each of them.
DoAddColumnsList(t, cols, dts, limit) ==
    \E jord \in Orders(Range(cols)), ord \in RowOrdersWith(World, t, "datatypes") :
      Call("add_columns", add_columns(World, t, cols, dts, jord, ord), limit)

DoInsertRow(t, rid, data, limit) ==
    \E jord \in Orders(DOMAIN data), ord \in RowOrdersWith(World, t, rid) :
      Call("insert_row", insert_row(World, t, rid, data, jord, ord), limit)

DoInsertRowTyped(t, rid, data, limit) ==
    \E jord \in Orders(DOMAIN data), ord \in RowOrdersWith(World, t, rid) :
      Call("insert_row_with_datatype",
           insert_row_with_datatype(World, t, rid, data, jord, ord), limit)

DoUpdateRow(t, rid, c, v, limit) ==
    Call("update_row", update_row(World, t, rid, c, v), limit)

DoGetRow(t, rid, limit) == Call("get_row", get_row(World, t, rid), limit)

DoFind(t, c, v, many, limit) ==
    \E ord \in RowOrders(World, t) :
      Call("find_rows", find_rows_by_value_in_table(World, t, c, v, many, ord), limit)

DoSearch(t, parts, limit) ==
    \E ord \in RowOrders(World, t) :
      Call("search_rows", search_rows_by_condition_in_table(World, t, parts, ord), limit)

\* save_table(t, "<t>.csv") and load_table_from_file(t, "<t>.csv") called on
\* the facade; the load needs the file.
DoSaveTable(t, limit) == Call("save_table", save_table(World, t), limit)

DoLoadTable(t, limit) ==
    /\ t \in DOMAIN csv_files
    /\ Call("load_table", load_table_from_file(World, t), limit)

\* A holder of the facade pushes a line of its own on the public field wal.
DoPushWal(text, limit) ==
    Call("push_wal", [w |-> WalPush(World, text), ret |-> Ret("Ok", <<>>)], limit)

\* replay_wal / flush_wal called on the facade.
DoFlushWal(limit) == Call("flush_wal", flush_wal(World), limit)

DoBuildBloomFilter(limit) ==
    Call("build_bloom_filter", build_bloom_filter(World), limit)

\* bf.contains(v) on the filter the database holds.
DoBloomContains(v, limit) ==
    /\ bloom_filter # <<>>
    /\ Call("bloom_contains",
            [w |-> World,
             ret |-> LET o == ContainsOutcome(bloom_filter[1], v, overflow_checks)
                     IN IF o = "panic" THEN Ret("panic", <<>>)
                        ELSE Ret("Ok", <<o = "true">>)],
            limit)

DoBuildIndexes(limit) ==
    \E tord \in Orders(DOMAIN tables), rords \in AllRowOrders(World) :
      Call("build_indexes",
           [w |-> build_indexes(World, tord, rords), ret |-> Ret("Ok", <<>>)], limit)

\* One turn of the writer thread's loop that receives a record; the batch
\* is flushed when the batch interval has elapsed (`elapsed`) or it is full.
WriterRecv ==
    /\ channel # <<>>
    /\ \E elapsed \in BOOLEAN :
         LET batch == Append(buffer, Head(channel))
         IN IF elapsed \/ Len(batch) >= BatchSize
            THEN wal_log' = wal_log \o batch /\ buffer' = <<>>
            ELSE wal_log' = wal_log /\ buffer' = batch
    /\ channel' = Tail(channel)
    /\ UNCHANGED <<tables, operations_since_save, saved_row_count, wal, wal_writer,
                   indexer, bloom_filter, wal_archive, csv_files, lock, engine_pc,
                   result, next_id, overflow_checks, binary, sync, lsm>>

\* The turn of a timeout that clears the batch and writes nothing.
WriterTimeout_discard ==
    /\ channel = <<>>
    /\ buffer # <<>>
    /\ buffer' = <<>>
    /\ UNCHANGED <<tables, operations_since_save, saved_row_count, wal, wal_writer,
                   indexer, bloom_filter, channel, wal_log, wal_archive, csv_files,
                   lock, engine_pc, result, next_id, overflow_checks, binary, sync, lsm>>

\* One turn of the loop in which recv_timeout times out: the batch interval
\* has elapsed, and a non-empty batch is flushed.
WriterTimeout ==
    /\ channel = <<>>
    /\ buffer # <<>>
    /\ wal_log' = wal_log \o buffer
    /\ buffer' = <<>>
    /\ UNCHANGED <<tables, operations_since_save, saved_row_count, wal, wal_writer,
                   indexer, bloom_filter, channel, wal_archive, csv_files, lock,
                   engine_pc, result, next_id, overflow_checks, binary, sync, lsm>>

\* A turn of the loop that receives a record and comes to flush while
\* wal.log cannot be opened: the diagnostic is printed, nothing is written
\* and buffer.clear() runs all the same.
WriterRecvOpenFails ==
    /\ channel # <<>>
    /\ \E elapsed \in BOOLEAN : elapsed \/ Len(buffer) + 1 >= BatchSize
    /\ buffer' = <<>>
    /\ channel' = Tail(channel)
    /\ UNCHANGED <<tables, operations_since_save, saved_row_count, wal, wal_writer,
                   indexer, bloom_filter, wal_log, wal_archive, csv_files, lock,
                   engine_pc, result, next_id, overflow_checks, binary, sync, lsm>>

\* The same for the turn in which recv_timeout times out.
WriterTimeoutOpenFails ==
    /\ channel = <<>>
    /\ buffer # <<>>
    /\ buffer' = <<>>
    /\ UNCHANGED <<tables, operations_since_save, saved_row_count, wal, wal_writer,
                   indexer, bloom_filter, channel, wal_log, wal_archive, csv_files,
                   lock, engine_pc, result, next_id, overflow_checks, binary, sync, lsm>>

\* A thread enqueues a record with WalWriter::log.
Enqueue(text, limit) ==
    /\ next_id <= limit
    /\ SetWorld(WalWriter_log(World, text))
    /\ UNCHANGED <<buffer, wal_log, wal_archive, lock, engine_pc, result>>

\* A worker that unwraps the lock result, as the index engine does, does
\* not get past a poisoned Mutex.
EngineLock_unwrap ==
    /\ ~sync.poisoned
    /\ lock = "free"
    /\ engine_pc = "idle"
    /\ lock' = "wal_engine"
    /\ engine_pc' = "persist"
    /\ UNCHANGED <<tables, operations_since_save, saved_row_count, wal, wal_writer,
                   indexer, bloom_filter, channel, buffer, wal_log, wal_archive,
                   csv_files, result, next_id, overflow_checks, binary, sync, lsm>>

\* The WAL engine's cycle: lock, persist, replay, commit, unlock.  The lock
\* is taken with `lock().unwrap_or_else(|poisoned| poisoned.into_inner())`,
\* whatever the poison flag.
EngineLock ==
    /\ lock = "free"
    /\ engine_pc = "idle"
    /\ lock' = "wal_engine"
    /\ engine_pc' = "persist"
    /\ UNCHANGED <<tables, operations_since_save, saved_row_count, wal, wal_writer,
                   indexer, bloom_filter, channel, buffer, wal_log, wal_archive,
                   csv_files, result, next_id, overflow_checks, binary, sync, lsm>>

EnginePersist ==
    /\ engine_pc = "persist"
    /\ wal_log' = persist_wal(World, wal_log)
    /\ engine_pc' = "replay"
    /\ UNCHANGED <<tables, operations_since_save, saved_row_count, wal, wal_writer,
                   indexer, bloom_filter, channel, buffer, wal_archive, csv_files,
                   lock, result, next_id, overflow_checks, binary, sync, lsm>>

EngineReplay ==
    /\ engine_pc = "replay"
    /\ SetWorld(flush_wal(World).w)
    /\ engine_pc' = "commit"
    /\ UNCHANGED <<buffer, wal_log, wal_archive, lock, result>>

EngineCommit ==
    /\ engine_pc = "commit"
    /\ LET c == commit_wal(World, wal_archive)
       IN /\ SetWorld(c.w)
          /\ wal_archive' = c.archive
          /\ wal_log' = c.log
    /\ engine_pc' = "idle"
    /\ lock' = "free"
    /\ UNCHANGED <<buffer, result>>

\* main(): a new Database, load_wal, flush_wal, the writer attached (a
\* driver that attaches none leaves the facade on its in-memory fallback),
\* the threads started.  The files are what the previous process left.
Startup(csv, log, id, attach) ==
    LET w0 == Database_new(csv, id)
        w1 == load_wal(w0, log).w
        w2 == flush_wal(w1).w
    IN [w2 EXCEPT !.wal_writer = attach]

\* The process is killed at any point and started again.
Restart ==
    /\ SetWorld(Startup(csv_files, wal_log, next_id, wal_writer))
    /\ buffer' = <<>>
    /\ lock' = "free"
    /\ engine_pc' = "idle"
    /\ result' = NoResult
    /\ UNCHANGED <<wal_log, wal_archive>>

Init ==
    /\ wal_writer \in BOOLEAN
    /\ tables = Startup(EmptyMap, <<>>, 1, wal_writer).tables
    /\ operations_since_save = 0
    /\ saved_row_count = 0
    /\ wal = <<>>
    /\ indexer = <<>>
    /\ bloom_filter = <<>>
    /\ channel = <<>>
    /\ buffer = <<>>
    /\ wal_log = <<>>
    /\ wal_archive = <<>>
    /\ csv_files = EmptyMap
    /\ lock = "free"
    /\ engine_pc = "idle"
    /\ result = NoResult
    /\ next_id = 1
    /\ overflow_checks = FALSE
    /\ binary = NoBinary
    /\ sync = NoPanic
    /\ lsm = NoLsm

\* The inputs of the durability specification.
STables == {"t1", "t2"}
SCols == {"name"}
SRows == {"r1"}
SVals == {"a", "b"}

Next ==
    \/ \E t \in STables : DoCreateTable(t, MaxOps)
    \/ \E t \in STables, c \in SCols : DoAddColumn(t, c, MaxOps)
    \/ \E t \in STables, rid \in SRows, data \in RowsOver(SCols, SVals) :
         DoInsertRow(t, rid, data, MaxOps)
    \/ \E t \in STables, rid \in SRows, c \in SCols, v \in SVals :
         DoUpdateRow(t, rid, c, v, MaxOps)
    \/ WriterRecv
    \/ WriterTimeout
    \/ EngineLock
    \/ EnginePersist
    \/ EngineReplay
    \/ EngineCommit
    \/ Restart

Spec == Init /\ [][Next]_vars

----------------------------------------------------------------------------
(* The facade used directly, as a test does: Database::new(), no writer    *)
(* attached, no engine threads; the calls include the queries.             *)

QTables == {"t1"}
QCols == {"name"}
QRows == {"r1", "r2"}
QVals == {"a", "b"}
QTypes == {"string", "int"}

InitQuery ==
    /\ tables = EmptyMap
    /\ operations_since_save = 0
    /\ saved_row_count = 0
    /\ wal = <<>>
    /\ wal_writer = FALSE
    /\ indexer = <<>>
    /\ bloom_filter = <<>>
    /\ channel = <<>>
    /\ buffer = <<>>
    /\ wal_log = <<>>
    /\ wal_archive = <<>>
    /\ csv_files = EmptyMap
    /\ lock = "free"
    /\ engine_pc = "idle"
    /\ result = NoResult
    /\ next_id = 1
    /\ overflow_checks = FALSE
    /\ binary = NoBinary
    /\ sync = NoPanic
    /\ lsm = NoLsm

NextQuery ==
    \/ \E t \in QTables : DoCreateTable(t, MaxQueryOps)
    \/ \E t \in QTables, c \in QCols : DoAddColumn(t, c, MaxQueryOps)
    \/ \E t \in QTables, c \in QCols, dt \in QTypes : DoAddColumns(t, c, dt, MaxQueryOps)
    \/ \E t \in QTables, rid \in QRows, data \in RowsOver(QCols, QVals) :
         DoInsertRow(t, rid, data, MaxQueryOps)
    \/ \E t \in QTables, rid \in QRows, data \in RowsOver(QCols, QVals) :
         DoInsertRowTyped(t, rid, data, MaxQueryOps)
    \/ \E t \in QTables, rid \in QRows, c \in QCols, v \in QVals :
         DoUpdateRow(t, rid, c, v, MaxQueryOps)
    \/ \E t \in QTables, rid \in QRows : DoGetRow(t, rid, MaxQueryOps)
    \/ \E t \in QTables, c \in QCols, v \in QVals, many \in BOOLEAN :
         DoFind(t, c, v, many, MaxQueryOps)
    \/ DoBuildIndexes(MaxQueryOps)

SpecQuery == InitQuery /\ [][NextQuery]_vars


----------------------------------------------------------------------------
(* Two tables under one global index: the facade used directly, with the   *)
(* inserts, the index rebuild and the exact-match query.                   *)

MaxIndexOps == 4

ITables == {"t1", "t2"}
IRows == {"r1"}
IVals == {"a", "b"}

NextIndex ==
    \/ \E t \in ITables : DoCreateTable(t, MaxIndexOps)
    \/ \E t \in ITables, rid \in IRows, data \in [{"name"} -> IVals] :
         DoInsertRow(t, rid, data, MaxIndexOps)
    \/ \E t \in ITables, v \in IVals, many \in BOOLEAN :
         DoFind(t, "name", v, many, MaxIndexOps)
    \/ DoBuildIndexes(MaxIndexOps)

SpecIndex == InitQuery /\ [][NextIndex]_vars

----------------------------------------------------------------------------
(* One table whose rows have a name and a zip: the index is built over the *)
(* names, the exact-match query is asked on either column.                 *)

MaxColumnOps == 3

CRows == {"r1", "r2"}
CCols == {"name", "zip"}
CVals == {"a", "b"}

NextColumns ==
    \/ DoCreateTable("t1", MaxColumnOps)
    \/ \E rid \in CRows, data \in [CCols -> CVals] :
         DoInsertRow("t1", rid, data, MaxColumnOps)
    \/ \E c \in CCols, v \in CVals, many \in BOOLEAN :
         DoFind("t1", c, v, many, MaxColumnOps)
    \/ DoBuildIndexes(MaxColumnOps)

SpecColumns == InitQuery /\ [][NextColumns]_vars

----------------------------------------------------------------------------
(* The Bloom filter over the email field, in either build profile.  A call  *)
(* that panics is recorded as such; what the caller's thread does next is   *)
(* not part of the steps.                                                   *)

MaxBloomOps == 3

BRows == {"r1", "r2"}
BVals == {"a@x", "b@x", "alice@example.com"}

InitBloom ==
    /\ tables = EmptyMap
    /\ operations_since_save = 0
    /\ saved_row_count = 0
    /\ wal = <<>>
    /\ wal_writer = FALSE
    /\ indexer = <<>>
    /\ bloom_filter = <<>>
    /\ channel = <<>>
    /\ buffer = <<>>
    /\ wal_log = <<>>
    /\ wal_archive = <<>>
    /\ csv_files = EmptyMap
    /\ lock = "free"
    /\ engine_pc = "idle"
    /\ result = NoResult
    /\ next_id = 1
    /\ overflow_checks \in BOOLEAN
    /\ binary = NoBinary
    /\ sync = NoPanic
    /\ lsm = NoLsm

NextBloom ==
    \/ DoCreateTable("t1", MaxBloomOps)
    \/ \E rid \in BRows, data \in [{"email"} -> BVals] :
         DoInsertRow("t1", rid, data, MaxBloomOps)
    \/ DoBuildBloomFilter(MaxBloomOps)
    \/ \E v \in BVals : DoBloomContains(v, MaxBloomOps)
    \/ \E v \in BVals, many \in BOOLEAN : DoFind("t1", "email", v, many, MaxBloomOps)

SpecBloom == InitBloom /\ [][NextBloom]_vars

----------------------------------------------------------------------------
(* A table with declared column types and the two queries. *)

MaxTypedOps == 4

YRows == {"r1", "r2"}
YVals == {"a", "1", "1.5", "TRUE", "true", "false"}
YTypes == {"int", "string", "bool"}
YTags == YTypes \cup {"date"}
YColumns == <<"name", "zip">>
YOperators == {"==", ">", "<", ">=", "<=", "!="}
YConds == {<<"name", o, v>> : o \in YOperators, v \in {"a", "1", "int"}} \cup {<<"name", "==">>}

NextTyped ==
    \/ DoCreateTable("t1", MaxTypedOps)
    \/ \E dt \in YTypes : DoAddColumns("t1", "name", dt, MaxTypedOps)
    \/ \E dts \in [1..2 -> YTags] : DoAddColumnsList("t1", YColumns, dts, MaxTypedOps)
    \/ \E rid \in YRows, data \in [{"name"} -> YVals] :
         DoInsertRowTyped("t1", rid, data, MaxTypedOps)
    \/ \E v \in YVals \cup YTypes, many \in BOOLEAN :
         DoFind("t1", "name", v, many, MaxTypedOps)
    \/ \E parts \in YConds : DoSearch("t1", parts, MaxTypedOps)

SpecTyped == InitQuery /\ [][NextTyped]_vars

----------------------------------------------------------------------------
(* The asynchronous writer alone: threads enqueue records, the writer      *)
(* thread batches and appends them to wal.log, which nothing truncates.    *)
(* The writer thread loops for as long as the process runs, which is the   *)
(* fairness of its two turns.                                              *)

MaxEnqueue == 12

WRecord == <<"add_column", ":", "t1", ":", "name">>

InitWriter ==
    /\ tables = EmptyMap
    /\ operations_since_save = 0
    /\ saved_row_count = 0
    /\ wal = <<>>
    /\ wal_writer = TRUE
    /\ indexer = <<>>
    /\ bloom_filter = <<>>
    /\ channel = <<>>
    /\ buffer = <<>>
    /\ wal_log = <<>>
    /\ wal_archive = <<>>
    /\ csv_files = EmptyMap
    /\ lock = "free"
    /\ engine_pc = "idle"
    /\ result = NoResult
    /\ next_id = 1
    /\ overflow_checks = FALSE
    /\ binary = NoBinary
    /\ sync = NoPanic
    /\ lsm = NoLsm

NextWriter ==
    \/ Enqueue(WRecord, MaxEnqueue)
    \/ WriterRecv
    \/ WriterTimeout

SpecWriter ==
    InitWriter /\ [][NextWriter]_vars /\ WF_vars(WriterRecv) /\ WF_vars(WriterTimeout)

\* The writer with a wal.log that may fail to open at any flush.
NextWriterIO ==
    \/ Enqueue(WRecord, MaxEnqueue)
    \/ WriterRecv
    \/ WriterTimeout
    \/ WriterRecvOpenFails
    \/ WriterTimeoutOpenFails

SpecWriterIO ==
    InitWriter /\ [][NextWriterIO]_vars /\ WF_vars(WriterRecv) /\ WF_vars(WriterTimeout)

----------------------------------------------------------------------------
(* The three kinds of thread that share the Arc<Mutex<Database>>: callers,  *)
(* the WAL engine and the index engine.  `sync.poisoned` is the poison flag *)
(* of the Mutex, set for good when a thread panics while it holds the       *)
(* guard; `sync.index_engine` is "dead" once the index thread has panicked. *)

\* IndexEngine::start, `db_clone.lock().unwrap()`: the guard is taken when
\* the lock is free; on a poisoned Mutex the unwrap panics, the guard is
\* dropped at once and the thread ends.
IndexLock_without_mutex ==
    /\ sync.index_engine = "sleeping"
    /\ IF sync.poisoned
       THEN sync' = [sync EXCEPT !.index_engine = "dead"] /\ lock' = lock
       ELSE sync' = sync /\ lock' = "index_engine"
    /\ UNCHANGED <<tables, operations_since_save, saved_row_count, wal, wal_writer,
                   indexer, bloom_filter, channel, buffer, wal_log, wal_archive,
                   csv_files, engine_pc, result, next_id, overflow_checks, binary, lsm>>

IndexLock ==
    /\ lock = "free"
    /\ sync.index_engine = "sleeping"
    /\ IF sync.poisoned
       THEN sync' = [sync EXCEPT !.index_engine = "dead"] /\ lock' = lock
       ELSE sync' = sync /\ lock' = "index_engine"
    /\ UNCHANGED <<tables, operations_since_save, saved_row_count, wal, wal_writer,
                   indexer, bloom_filter, channel, buffer, wal_log, wal_archive,
                   csv_files, engine_pc, result, next_id, overflow_checks, binary, lsm>>

\* The rest of the index engine's block: build_indexes, build_bloom_filter,
\* the guard dropped at the end of the block.  A build_bloom_filter that
\* panics (an overflow in a build with overflow checks) ends the thread with
\* the guard held, which poisons the Mutex.
IndexRebuild ==
    /\ lock = "index_engine"
    /\ \E tord \in Orders(DOMAIN tables), rords \in AllRowOrders(World) :
         LET w1 == build_indexes(World, tord, rords)
             b == build_bloom_filter(w1)
         IN /\ indexer' = b.w.indexer
            /\ bloom_filter' = b.w.bloom_filter
            /\ sync' = IF b.ret.status = "panic"
                       THEN [poisoned |-> TRUE, index_engine |-> "dead"]
                       ELSE sync
    /\ lock' = "free"
    /\ UNCHANGED <<tables, operations_since_save, saved_row_count, wal, wal_writer,
                   channel, buffer, wal_log, wal_archive, csv_files, engine_pc,
                   result, next_id, overflow_checks, binary, lsm>>

\* A caller thread takes the guard with `db.lock().unwrap()` and panics
\* before it drops it.
HolderPanics ==
    /\ lock = "free"
    /\ ~sync.poisoned
    /\ sync' = [sync EXCEPT !.poisoned = TRUE]
    /\ UNCHANGED <<tables, operations_since_save, saved_row_count, wal, wal_writer,
                   indexer, bloom_filter, channel, buffer, wal_log, wal_archive,
                   csv_files, lock, engine_pc, result, next_id, overflow_checks,
                   binary, lsm>>

\* A caller's `db.lock().unwrap()` gets the guard of a Mutex that is not
\* poisoned only.
CallerHolds == ~sync.poisoned

MaxThreadOps == 3

TRows == {"r1", "r2"}
TEmails == {"a@x", "alice@example.com"}

NextThreads ==
    \/ CallerHolds /\ DoCreateTable("t1", MaxThreadOps)
    \/ \E rid \in TRows, e \in TEmails :
         CallerHolds /\ DoInsertRow("t1", rid, [email |-> e], MaxThreadOps)
    \/ HolderPanics
    \/ EngineLock
    \/ EnginePersist
    \/ EngineReplay
    \/ EngineCommit
    \/ IndexLock
    \/ IndexRebuild

SpecThreads == InitBloom /\ [][NextThreads]_vars

\* replay_wal returns: the WAL engine's step from its replay to its commit,
\* by the engine's position alone.
EngineReplayReturns == engine_pc = "replay" /\ engine_pc' = "commit"

\* Each worker's loop sleeps for its interval and tries the lock again, and
\* the WAL engine's block, once it has the guard, runs to its end: its three
\* calls loop over the lines of the log only.  The index engine waits in
\* lock() while another thread has the guard and gets it in one of the
\* intervals that the other threads sleep through with the lock free, which
\* is strong fairness of its attempt.
SpecThreadsFair ==
    /\ SpecThreads
    /\ WF_vars(EngineLock) /\ WF_vars(EnginePersist)
    /\ WF_engine_pc(EngineReplayReturns) /\ WF_vars(EngineCommit)
    /\ SF_vars(IndexLock)

----------------------------------------------------------------------------
(* The facade on its in-memory log and the replay of that log, with values *)
(* that may hold a ':'.                                                     *)

MaxReplayOps == 3

RRows == {"r1"}
RVals == {"a", "a:b"}

NextReplay ==
    \/ DoCreateTable("t1", MaxReplayOps)
    \/ DoAddColumn("t1", "name", MaxReplayOps)
    \/ \E rid \in RRows, data \in RowsOver({"name"}, RVals) :
         DoInsertRow("t1", rid, data, MaxReplayOps)
    \/ \E rid \in RRows, v \in RVals : DoUpdateRow("t1", rid, "name", v, MaxReplayOps)
    \/ DoFlushWal(MaxReplayOps)

SpecReplay == InitQuery /\ [][NextReplay]_vars

----------------------------------------------------------------------------
(* The binary-file program: a Database is built table by table and row by
   row, written to the file and read back. *)

MaxBinaryOps == 3

BTableNames == {<<116>>, <<117>>}
BColumnLists == {<<>>, << <<110>>, <<109>> >>}
BRowIds == {<<49>>, <<50>>}
BValues == {[variant |-> "Int", v |-> <<0 - 2>>],
            [variant |-> "Int", v |-> <<300>>],
            [variant |-> "Float", v |-> <<63, 248, 0, 0, 0, 0, 0, 0>>],
            [variant |-> "Bool", v |-> <<1>>],
            [variant |-> "Text", v |-> <<104, 105>>]}
BRowData == {EmptyMap} \cup {MapPut(EmptyMap, <<110>>, v) : v \in BValues}
              \cup {MapPut(MapPut(EmptyMap, <<110>>, [variant |-> "Int", v |-> <<0 - 2>>]),
                           <<109>>, [variant |-> "Text", v |-> <<>>])}
BRowValues == {[data |-> d, encrypted |-> FALSE] : d \in BRowData}
                \cup {[data |-> d, encrypted |-> TRUE] :
                        d \in {x \in BRowData : Cardinality(DOMAIN x) # 1}}

BinaryStep(b) ==
    /\ binary' = b
    /\ UNCHANGED <<tables, operations_since_save, saved_row_count, wal, wal_writer,
                   indexer, bloom_filter, channel, buffer, wal_log, wal_archive,
                   csv_files, lock, engine_pc, result, next_id, overflow_checks,
                   sync, lsm>>

\* db.tables.insert(name, Table { columns, rows: HashMap::new() })
BinaryInsertTable(name, columns) ==
    /\ binary.ops < MaxBinaryOps
    /\ BinaryStep([binary EXCEPT !.db = MapPut(@, name, [columns |-> columns,
                                                         rows |-> EmptyMap]),
                                 !.ops = @ + 1])

\* table.rows.insert(row_id, Row { data, encrypted })
BinaryInsertRow(name, row_id, row) ==
    /\ binary.ops < MaxBinaryOps
    /\ name \in DOMAIN binary.db
    /\ BinaryStep([binary EXCEPT !.db[name].rows = MapPut(@, row_id, row),
                                 !.ops = @ + 1])

\* write_database_to_binary(&db, file_path); `of` remembers the database
\* that was written (history).
BinaryWrite ==
    \E bytes \in write_database_to_binary(binary.db) :
      BinaryStep([binary EXCEPT !.file = <<[bytes |-> bytes, of |-> binary.db]>>])

\* read_database_from_binary(file_path) on the file that was written.
BinaryRead ==
    /\ binary.file # <<>>
    /\ BinaryStep([binary EXCEPT !.loaded =
                     <<[read |-> read_database_from_binary(binary.file[1].bytes),
                        of |-> binary.file[1].of]>>])

NextBinary ==
    \/ \E name \in BTableNames, columns \in BColumnLists : BinaryInsertTable(name, columns)
    \/ \E name \in BTableNames, row_id \in BRowIds, row \in BRowValues :
         BinaryInsertRow(name, row_id, row)
    \/ BinaryWrite
    \/ BinaryRead

SpecBinary == InitQuery /\ [][NextBinary]_vars

----------------------------------------------------------------------------
(* The LSM tree program (DB/src/main.rs): a memtable, a log it appends to  *)
(* and one SSTable file.  A line of a file is a sequence of tokens.        *)

\* writeln!(file, "{}:{}", key, value)
KvLine(key, value) == Tokens(key) \o <<":">> \o Tokens(value)

\* line.splitn(2, ':'): the line whole, or what is before and after its
\* first ':'.
splitn_2(line) ==
    IF \E i \in DOMAIN line : line[i] = ":"
    THEN LET i == CHOOSE j \in DOMAIN line :
                    line[j] = ":" /\ \A h \in 1..(j - 1) : line[h] # ":"
         IN <<SubSeq(line, 1, i - 1), SubSeq(line, i + 1, Len(line))>>
    ELSE <<line>>

\* WAL::log
WAL_log(lines, key, value) == Append(lines, KvLine(key, value))

\* Memtable::insert: BTreeMap::insert
Memtable_insert(data, key, value) == MapPut(data, key, value)

\* flush_to_sstable: File::create truncates the file, then one line for
\* each entry of the BTreeMap in the order of the keys.
flush_to_sstable(data, file) ==
    [i \in 1..Cardinality(DOMAIN data) |->
       KvLine(Sorted(DOMAIN data)[i], data[Sorted(DOMAIN data)[i]])]

\* read_sstable: the value of the first line whose key is `key`.
RECURSIVE read_sstable(_, _)
read_sstable(file, key) ==
    IF file = <<>> THEN <<>>
    ELSE LET parts == splitn_2(Head(file))
         IN IF Len(parts) = 2 /\ Str(parts[1]) = key
            THEN <<Str(parts[2])>>
            ELSE read_sstable(Tail(file), key)

\* LSMTree::insert
LSMTree_insert(l, key, value) ==
    LET data == Memtable_insert(l.memtable, key, value)
        l1 == [l EXCEPT !.wal = WAL_log(@, key, value),
                        !.memtable = data,
                        !.inserted = Append(@, <<key, value>>)]
    IN IF Cardinality(DOMAIN data) >= l.threshold
       THEN [l1 EXCEPT !.sstable = flush_to_sstable(data, @), !.memtable = << >>]
       ELSE l1

\* LSMTree::get
LSMTree_get(l, key) ==
    IF key \in DOMAIN l.memtable THEN <<l.memtable[key]>>
    ELSE read_sstable(l.sstable, key)

MaxLsmOps == 4

LKeys == {"a", "a:b", "b", "x"}
LValues == {"1", "a:b"}
LThresholds == {2, 3}

InitLsm ==
    /\ tables = EmptyMap
    /\ operations_since_save = 0
    /\ saved_row_count = 0
    /\ wal = <<>>
    /\ wal_writer = FALSE
    /\ indexer = <<>>
    /\ bloom_filter = <<>>
    /\ channel = <<>>
    /\ buffer = <<>>
    /\ wal_log = <<>>
    /\ wal_archive = <<>>
    /\ csv_files = EmptyMap
    /\ lock = "free"
    /\ engine_pc = "idle"
    /\ result = NoResult
    /\ next_id = 1
    /\ overflow_checks = FALSE
    /\ binary = NoBinary
    /\ sync = NoPanic
    /\ \E threshold \in LThresholds : lsm = LSMTree_new(threshold)

LsmStep(l) ==
    /\ lsm' = l
    /\ UNCHANGED <<tables, operations_since_save, saved_row_count, wal, wal_writer,
                   indexer, bloom_filter, channel, buffer, wal_log, wal_archive,
                   csv_files, lock, engine_pc, result, next_id, overflow_checks,
                   binary, sync>>

\* lsm.insert(key, value)
LsmInsert(key, value) ==
    /\ Len(lsm.inserted) < MaxLsmOps
    /\ LsmStep([LSMTree_insert(lsm, key, value) EXCEPT !.got = <<>>])

\* lsm.get(key)
LsmGet(key) ==
    /\ lsm' = [lsm EXCEPT !.got = <<[key |-> key, ret |-> LSMTree_get(lsm, key)]>>]
    /\ UNCHANGED <<tables, operations_since_save, saved_row_count, wal, wal_writer,
                   indexer, bloom_filter, channel, buffer, wal_log, wal_archive,
                   csv_files, lock, engine_pc, result, next_id, overflow_checks,
                   binary, sync>>

NextLsm ==
    \/ \E key \in LKeys, value \in LValues : LsmInsert(key, value)
    \/ \E key \in LKeys : LsmGet(key)

SpecLsm == InitLsm /\ [][NextLsm]_vars

----------------------------------------------------------------------------
(* Replay of a log that holds lines the facade did not write. *)

MaxForeignOps == 3

ShortLines == {<<"create_table">>,
               <<"add_column", ":", "t1">>,
               <<"insert_row", ":", "t1", ":", "r1">>,
               <<"update_row", ":", "t1", ":", "r1", ":", "name">>}
OtherBadLines == {<<"drop_table", ":", "t1">>,
                  <<"insert_row", ":", "t1", ":", "r1", ":", "x">>}
GoodLines == {<<"add_column", ":", "t1", ":", "name">>,
              <<"insert_row", ":", "t1", ":", "r2", ":", "{", "}">>}

NextForeign ==
    \/ DoCreateTable("t1", MaxForeignOps)
    \/ \E text \in ShortLines \cup OtherBadLines \cup GoodLines :
         DoPushWal(text, MaxForeignOps)
    \/ DoFlushWal(MaxForeignOps)

SpecForeign == InitQuery /\ [][NextForeign]_vars

----------------------------------------------------------------------------
(* The predicate search over a column that holds numbers and a word. *)

MaxSearchOps == 4

HRows == {"r1", "r2", "r3"}
HVals == {"20", "40", "x"}
HOperators == {">", "<", ">=", "<="}

NextSearch ==
    \/ DoCreateTable("t1", MaxSearchOps)
    \/ \E rid \in HRows, v \in HVals : DoInsertRow("t1", rid, [age |-> v], MaxSearchOps)
    \/ \E o \in HOperators : DoSearch("t1", <<"age", o, "30">>, MaxSearchOps)

SpecSearch == InitQuery /\ [][NextSearch]_vars

----------------------------------------------------------------------------
(* Snapshots: a table, typed or not, saved in full and loaded again. *)

MaxSnapshotOps == 3

NRows == {"r1", "r2"}
NVals == {"a", "1"}
NTypes == {"int", "string"}

NextSnapshot ==
    \/ DoCreateTable("t1", MaxSnapshotOps)
    \/ DoAddColumn("t1", "name", MaxSnapshotOps)
    \/ \E dt \in NTypes : DoAddColumns("t1", "name", dt, MaxSnapshotOps)
    \/ \E rid \in NRows, data \in RowsOver({"name"}, NVals) :
         DoInsertRow("t1", rid, data, MaxSnapshotOps)
    \/ DoSaveTable("t1", MaxSnapshotOps)
    \/ DoLoadTable("t1", MaxSnapshotOps)

SpecSnapshot == InitQuery /\ [][NextSnapshot]_vars

----------------------------------------------------------------------------
(* Append saves: rows with fresh ids inserted into two tables in any
   interleaving; every save_threshold-th insert saves the table it went to. *)

MaxAppendOps == 12

ATables == {"t1", "t2"}
RowIds == <<"r1", "r2", "r3", "r4", "r5">>

\* The callers insert the rows of a table under the ids r1, r2, ... in turn.
RowCount(t) == IF t \in DOMAIN tables THEN Cardinality(DOMAIN tables[t].rows) ELSE 0

DoInsertNext(t, data, limit) ==
    /\ RowCount(t) < Len(RowIds)
    /\ DoInsertRow(t, RowIds[RowCount(t) + 1], data, limit)

NextAppend ==
    \/ \E t \in ATables : DoCreateTable(t, MaxAppendOps)
    \/ \E t \in ATables : DoInsertNext(t, EmptyMap, MaxAppendOps)

SpecAppend == InitQuery /\ [][NextAppend]_vars

----------------------------------------------------------------------------
(* The automatic save: one new table with one column, filled row by row. *)

MaxAutoSaveOps == 7

NextAutoSave ==
    \/ DoCreateTable("t1", MaxAutoSaveOps)
    \/ DoAddColumn("t1", "name", MaxAutoSaveOps)
    \/ \E data \in RowsOver({"name"}, {"a"}) : DoInsertNext("t1", data, MaxAutoSaveOps)

SpecAutoSave == InitQuery /\ [][NextAutoSave]_vars

----------------------------------------------------------------------------
(* Properties of the durability pipeline, checked under Spec *)

\* Equal in tables, columns (as a set), rows and row contents.
TablesEqual(a, b) ==
    /\ DOMAIN a = DOMAIN b
    /\ \A t \in DOMAIN a :
         /\ Range(a[t].columns) = Range(b[t].columns)
         /\ a[t].rows = b[t].rows

\* What replaying `entries` into an empty database gives.
ReplayedTables(entries) == ReplayAll(EmptyMap, entries).tables

\* Every mutation so far has its record in wal.log and none is committed.
AllInWorkingLog ==
    /\ next_id > 1
    /\ wal_archive = <<>>
    /\ {wal_log[i].id : i \in DOMAIN wal_log} = 1..(next_id - 1)

\* C1: when the records of all mutations are in the working log file and
\* none is committed, a restart (a new Database, load_wal, flush_wal) ends
\* with the tables, columns, rows and row contents the database had before
\* the crash.
C1_RestartRecoversWorkingLog ==
    [][(Restart /\ AllInWorkingLog) => TablesEqual(tables', tables)]_vars

\* No mutation is in flight: nothing in the in-memory log, the writer's queue
\* or its batch, and no engine cycle under way.
Quiescent ==
    /\ lock = "free"
    /\ engine_pc = "idle"
    /\ wal = <<>>
    /\ channel = <<>>
    /\ buffer = <<>>

\* C2: replaying the archive log followed by the working log into an empty
\* database reproduces the in-memory tables up to the last committed
\* operation; stated for the states where every operation is on disk, so
\* that the replay has to give the tables in memory.
C2_LogsReproduceMemory ==
    Quiescent => TablesEqual(ReplayedTables(wal_archive \o wal_log), tables)

\* C3: no record enqueued with WalWriter::log is lost when a commit truncates
\* the working log: a record the writer has flushed to wal.log is in the
\* archive once the engine's commit has run.
C3_NoWriterRecordLostAtCommit ==
    [][EngineCommit =>
         \A i \in DOMAIN wal_log :
           wal_log[i].via = "writer" => wal_log[i] \in Range(wal_archive')]_vars

\* Every batch of mutations has gone through a whole engine cycle.
CommittedAll ==
    /\ Quiescent
    /\ wal_log = <<>>
    /\ wal_archive # <<>>

\* C4: after mutations on an empty database, each batch followed by the
\* engine's persist, replay, commit, a fresh process that loads the working
\* log and replays it has a database equal to the original.
C4_RestartAfterCommitRecovers ==
    [][(Restart /\ CommittedAll) => TablesEqual(tables', tables)]_vars

\* C5: the records of the archive log are in the order in which their
\* mutations took the facade lock (the order of their numbers).
C5_ArchiveInLockOrder ==
    \A i, j \in DOMAIN wal_archive :
      i < j => wal_archive[i].id < wal_archive[j].id

C5_Witness ==
    /\ Len(wal_archive) >= 2
    /\ wal_archive[1].text # wal_archive[2].text

----------------------------------------------------------------------------
(* Properties of the table store and the queries, checked under SpecQuery  *)
(* and SpecIndex                                                           *)

\* C6: a create_table(T) on a database without T succeeds and leaves T
\* present; tables stay present; a create_table(T) on a database that has T
\* fails with TableAlreadyExists and leaves the tables and the log unchanged.
C6_CreateTableOnce ==
    [][/\ \A t \in DOMAIN tables : t \in DOMAIN tables'
       /\ \A t \in QTables :
            (result'.op = "create_table" /\ DoCreateTable(t, MaxQueryOps)) =>
              IF t \in DOMAIN tables
              THEN /\ result'.status = "TableAlreadyExists"
                   /\ tables' = tables
                   /\ wal' = wal
                   /\ channel' = channel
              ELSE /\ result'.status = "Ok"
                   /\ t \in DOMAIN tables']_vars

C6_Witness ==
    /\ result.op = "create_table"
    /\ result.status = "TableAlreadyExists"
    /\ "t1" \in DOMAIN tables
    /\ tables["t1"].rows # EmptyMap

\* `data` restricted to the columns `cols`.
Restrict(data, cols) == [k \in DOMAIN data \cap cols |-> data[k]]

\* C7: after a successful insert_row(T, id, data), get_row(T, id) succeeds
\* and returns data restricted to the columns of T.
C7_GetRowAfterInsert ==
    [][\A t \in QTables, rid \in QRows, data \in RowsOver(QCols, QVals) :
         (/\ result'.op = "insert_row"
          /\ result'.status = "Ok"
          /\ DoInsertRow(t, rid, data, MaxQueryOps)) =>
           LET g == get_row(World', t, rid).ret
           IN /\ g.status = "Ok"
              /\ g.payload[1].row = Restrict(data, Range(tables'[t].columns))]_vars

\* C8: insert_row and insert_row_with_datatype with a row id the table
\* already holds return an error and leave the row, the log and the
\* operation counter unchanged.
C8_InsertExistingRejected ==
    [][\A t \in QTables, rid \in QRows, data \in RowsOver(QCols, QVals) :
         (/\ t \in DOMAIN tables
          /\ rid \in DOMAIN tables[t].rows
          /\ \/ DoInsertRow(t, rid, data, MaxQueryOps)
             \/ DoInsertRowTyped(t, rid, data, MaxQueryOps)) =>
           /\ result'.status # "Ok"
           /\ tables'[t].rows[rid] = tables[t].rows[rid]
           /\ wal' = wal
           /\ channel' = channel
           /\ operations_since_save' = operations_since_save]_vars

\* The ids of the rows of table t whose field c equals v.
Matching(t, c, v) ==
    {rid \in DOMAIN tables[t].rows :
       c \in DOMAIN tables[t].rows[rid] /\ tables[t].rows[rid][c] = v}

\* C9: with no index and no Bloom filter built, find_rows_by_value_in_table
\* returns rows of T with their contents, none twice; with return_many all
\* the rows whose field col equals value and no other, without it at most
\* one such row, and one whenever there is one.
C9_FindWithoutIndex ==
    [][\A t \in QTables, c \in QCols, v \in QVals, many \in BOOLEAN :
         (/\ indexer = <<>>
          /\ bloom_filter = <<>>
          /\ t \in DOMAIN tables
          /\ result'.op = "find_rows"
          /\ DoFind(t, c, v, many, MaxQueryOps)) =>
           LET got == result'.payload
               ids == {got[i].row_id : i \in DOMAIN got}
           IN /\ result'.status = "Ok"
              /\ Cardinality(ids) = Len(got)
              /\ ids \subseteq Matching(t, c, v)
              /\ \A i \in DOMAIN got : got[i].row = tables[t].rows[got[i].row_id]
              /\ IF many THEN ids = Matching(t, c, v)
                 ELSE Len(got) <= 1 /\ (Matching(t, c, v) # {} => Len(got) = 1)]_vars

C9_Witness ==
    /\ result.op = "find_rows"
    /\ indexer = <<>>
    /\ bloom_filter = <<>>
    /\ Len(result.payload) = 2

\* C10: a find_rows_by_value_in_table(T, ..) that is answered from the index
\* returns only rows that were indexed from T: no index entry made for a row
\* of another table produces a result.
C10_IndexHitsFromOwnTable ==
    [][\A t \in ITables, v \in IVals, many \in BOOLEAN :
         (/\ indexer # <<>>
          /\ v \in DOMAIN indexer[1]
          /\ result'.op = "find_rows"
          /\ DoFind(t, "name", v, many, MaxIndexOps)) =>
           \A i \in DOMAIN result'.payload : result'.payload[i].from = t]_vars


----------------------------------------------------------------------------
(* Properties of the acceleration layer *)

\* C11: every value that was added to the Bloom filter is reported as
\* probably present by contains: no false negative, in either build.
C11_NoFalseNegative ==
    bloom_filter # <<>> =>
      \A v \in bloom_filter[1].added :
         ContainsOutcome(bloom_filter[1], v, overflow_checks) = "true"

C11_Witness ==
    /\ bloom_filter # <<>>
    /\ {"a@x", "alice@example.com"} \subseteq bloom_filter[1].added
    /\ result.op = "bloom_contains"
    /\ result.payload = <<TRUE>>

\* The row ids the index `idx` holds for the value v.
IndexedIds(idx, v) ==
    IF v \in DOMAIN idx THEN {idx[v][i].row_id : i \in DOMAIN idx[v]} ELSE {}

\* The ids of the rows of user data, of any table, whose name field is v.
NamedRows(tbs, v) ==
    UNION {{rid \in DOMAIN tbs[t].rows \ {"datatypes"} :
              "name" \in DOMAIN tbs[t].rows[rid] /\ tbs[t].rows[rid]["name"] = v} :
             t \in DOMAIN tbs}

\* C12: after build_indexes the index entry of every value v holds the ids
\* of the rows whose name is v and no other id: none of a row with another
\* name, none of an earlier rebuild, not the id of the datatypes row.
C12_IndexExact ==
    [][(result'.op = "build_indexes" /\ DoBuildIndexes(MaxQueryOps)) =>
         /\ indexer' # <<>>
         /\ \A v \in QVals \cup QTypes \cup DOMAIN indexer'[1] :
              IndexedIds(indexer'[1], v) = NamedRows(tables', v)]_vars

\* C13: the reserved row with id datatypes is returned by neither query,
\* and the add_columns that writes it leaves the operation counter alone.
C13_DatatypesRowHidden ==
    [][/\ result'.op \in {"find_rows", "search_rows"} =>
            \A i \in DOMAIN result'.payload : result'.payload[i].row_id # "datatypes"
       /\ \A dt \in YTypes :
            (result'.op = "add_columns" /\ DoAddColumns("t1", "name", dt, MaxTypedOps)) =>
              operations_since_save' = operations_since_save]_vars

----------------------------------------------------------------------------
(* Properties of the asynchronous writer *)

\* The numbers of the records of a sequence of log records.
Ids(recs) == [i \in DOMAIN recs |-> recs[i].id]

\* C14: with a wal.log that opens and is not truncated, the lines of
\* wal.log, then the batch, then the queue are the enqueued records in the
\* order of their enqueueing, each once; and every enqueued record
\* eventually is a line of wal.log.
C14_WriterDeliversInOrder ==
    /\ [](Ids(wal_log \o buffer \o channel) = [i \in 1..(next_id - 1) |-> i])
    /\ \A k \in 1..MaxEnqueue :
         (next_id > k) ~> (\E i \in DOMAIN wal_log : wal_log[i].id = k)

C14_Witness ==
    /\ Len(wal_log) = MaxEnqueue
    /\ Ids(wal_log) = [i \in 1..MaxEnqueue |-> i]
    /\ buffer = <<>>
    /\ channel = <<>>

\* C15: a flush whose open of wal.log fails keeps the records of the batch
\* in the buffer, and no enqueued record is ever in none of the queue, the
\* buffer and wal.log.
C15_FailedOpenKeepsBatch ==
    /\ [][WriterTimeoutOpenFails => buffer' = buffer]_vars
    /\ [][WriterRecvOpenFails => buffer' = Append(buffer, Head(channel))]_vars
    /\ [](Range(Ids(wal_log \o buffer \o channel)) = 1..(next_id - 1))

----------------------------------------------------------------------------
(* Algebraic properties of the table store *)

\* The number of occurrences of x in the sequence s.
Count(x, s) == Cardinality({i \in DOMAIN s : s[i] = x})

C17_ReplayIdempotent ==
    /\ [][(result'.op = "flush_wal" /\ DoFlushWal(MaxReplayOps)) =>
            TablesEqual(tables', tables)]_vars
    /\ [](TablesEqual(flush_wal(flush_wal(World).w).w.tables, flush_wal(World).w.tables))

----------------------------------------------------------------------------
(* Properties of the snapshots *)

\* What insert_row_with_datatype(T, id, data) answers in the database w.
TypedInsertStatus(w, t, rid, data) ==
    insert_row_with_datatype(w, t, rid, data, Sorted(DOMAIN data), <<>>).ret.status

\* The file of table t is what a full save of the table in memory writes.
SavedInFull(t) ==
    /\ t \in DOMAIN tables
    /\ t \in DOMAIN csv_files
    /\ csv_files[t] = save_table(World, t).w.csv_files[t]

\* C18: a load of the file that a full save of the table wrote gives a
\* table with the same set of columns, the same row ids and equal rows,
\* on which typed inserts are answered as before.
C18_SaveLoadRoundTrip ==
    [][(/\ SavedInFull("t1")
        /\ result'.op = "load_table"
        /\ DoLoadTable("t1", MaxSnapshotOps)) =>
          /\ Range(tables'["t1"].columns) = Range(tables["t1"].columns)
          /\ DOMAIN tables'["t1"].rows = DOMAIN tables["t1"].rows
          /\ tables'["t1"].rows = tables["t1"].rows
          /\ \A rid \in NRows, data \in RowsOver({"name"}, NVals) :
               TypedInsertStatus(World', "t1", rid, data)
                 = TypedInsertStatus(World, "t1", rid, data)]_vars

\* The records of the snapshot file of table t, none without the file.
FileRecords(files, t) == IF t \in DOMAIN files THEN files[t].records ELSE <<>>

\* The ids of the rows of table t that no save has written.
Unsaved(tbs, files, t) ==
    (DOMAIN tbs[t].rows \ {"datatypes"})
      \ {FileRecords(files, t)[i].row_id : i \in DOMAIN FileRecords(files, t)}

\* The insert into table t runs the append save.
AppendSaveStep(t) ==
    /\ operations_since_save + 1 >= save_threshold
    /\ result'.op = "insert_row"
    /\ result'.status = "Ok"
    /\ DoInsertNext(t, EmptyMap, MaxAppendOps)

\* C19: an append save of table t adds to the file of t one record for
\* every row of t that no save had written, and no other record, and leaves
\* the watermark at the number of rows of t written so far.
C19_AppendSaveWritesUnsaved ==
    [][\A t \in ATables :
         AppendSaveStep(t) =>
           LET old == FileRecords(csv_files, t)
               new == FileRecords(csv_files', t)
               written == SubSeq(new, Len(old) + 1, Len(new))
           IN /\ SubSeq(new, 1, Len(old)) = old
              /\ {written[i].row_id : i \in DOMAIN written}
                   = Unsaved(tables', csv_files, t)
              /\ Len(written) = Cardinality(Unsaved(tables', csv_files, t))
              /\ saved_row_count' = Len(new)]_vars

\* C20: the save_threshold-th successful insert into a new table without a
\* snapshot file leaves a file whose header lists the table's columns and
\* whose save_threshold data lines are the inserted rows, sorted by row id.
C20_AutoSaveWritesSortedFile ==
    [][(/\ operations_since_save + 1 >= save_threshold
        /\ "t1" \notin DOMAIN csv_files
        /\ result'.op = "insert_row"
        /\ result'.status = "Ok"
        /\ \E data \in RowsOver({"name"}, {"a"}) :
             DoInsertNext("t1", data, MaxAutoSaveOps)) =>
          /\ "t1" \in DOMAIN csv_files'
          /\ csv_files'["t1"].header = Sorted(Range(tables'["t1"].columns))
          /\ Len(csv_files'["t1"].records) = save_threshold
          /\ [i \in DOMAIN csv_files'["t1"].records |->
                csv_files'["t1"].records[i].row_id]
               = Sorted(DOMAIN tables'["t1"].rows)]_vars

----------------------------------------------------------------------------
(* Properties of the typed columns *)

\* The values that are signed decimal integers of 64 bits, and the values
\* that read true or false when the case of their letters is ignored.
DecimalI64 == {"1", "-7"}
BoolWords == {"true", "TRUE", "false"}

\* A typed insert of a new row with one value for the column `name`, whose
\* type is declared.
TypedInsertStep(rid, v) ==
    /\ "t1" \in DOMAIN tables
    /\ rid \notin DOMAIN tables["t1"].rows
    /\ "name" \in DOMAIN tables["t1"].row_datatypes
    /\ result'.op = "insert_row_with_datatype"
    /\ DoInsertRowTyped("t1", rid, [name |-> v], MaxTypedOps)

\* C21: a typed insert succeeds on an int column exactly for the signed
\* decimal integers of 64 bits, on a bool column exactly for true and false
\* in any case, on a string column always; a refusal is a DataTypeError.
C21_TypedInsertChecksType ==
    [][\A rid \in YRows, v \in YVals :
         TypedInsertStep(rid, v) =>
           LET dt == tables["t1"].row_datatypes["name"]
               accepted == result'.status = "Ok"
           IN /\ accepted \/ result'.status = "DataTypeError"
              /\ accepted => rid \in DOMAIN tables'["t1"].rows
              /\ dt = "int" => (accepted <=> v \in DecimalI64)
              /\ dt = "bool" => (accepted <=> v \in BoolWords)
              /\ dt = "string" => accepted]_vars

C21_Witness ==
    /\ result.op = "insert_row_with_datatype"
    /\ result.status = "Ok"
    /\ "t1" \in DOMAIN tables
    /\ "name" \in DOMAIN tables["t1"].row_datatypes
    /\ tables["t1"].row_datatypes["name"] = "bool"
    /\ \E rid \in YRows : rid \in DOMAIN tables["t1"].rows
                           /\ tables["t1"].rows[rid] = [name |-> "TRUE"]

\* C22: a typed insert refused for a value that does not match the type of
\* its column, or for a column without a declared type, changes neither the
\* tables, nor the in-memory log, nor the writer's queue, nor the operation
\* counter, nor a snapshot file.
C22_FailedTypedInsertNoEffect ==
    [][\A rid \in YRows, v \in YVals :
         (/\ "t1" \in DOMAIN tables
          /\ result'.op = "insert_row_with_datatype"
          /\ result'.status \in {"DataTypeError", "RowDoesNotExist"}
          /\ DoInsertRowTyped("t1", rid, [name |-> v], MaxTypedOps)) =>
           /\ tables' = tables
           /\ wal' = wal
           /\ channel' = channel
           /\ operations_since_save' = operations_since_save
           /\ csv_files' = csv_files]_vars

C22_Witness ==
    /\ result.op = "insert_row_with_datatype"
    /\ result.status = "DataTypeError"
    /\ "t1" \in DOMAIN tables
    /\ "name" \in DOMAIN tables["t1"].row_datatypes
    /\ tables["t1"].row_datatypes["name"] = "int"
    /\ DOMAIN tables["t1"].rows = {"datatypes"}
    /\ Len(wal) = 3

\* C23: add_columns on a table in memory with a type tag that the database
\* does not know fails with InvalidDataType and changes neither the tables
\* (columns, declared types, rows) nor the in-memory log nor the writer's
\* queue.
C23_InvalidTagAppliesNothing ==
    [][\A dts \in [1..2 -> YTags] :
         (/\ "t1" \in DOMAIN tables
          /\ \E i \in 1..2 : dts[i] \notin {"int", "float", "string", "bool"}
          /\ result'.op = "add_columns"
          /\ DoAddColumnsList("t1", YColumns, dts, MaxTypedOps)) =>
           /\ result'.status = "InvalidDataType"
           /\ tables' = tables
           /\ wal' = wal
           /\ channel' = channel
           /\ operations_since_save' = operations_since_save]_vars

C23_Witness ==
    /\ result.op = "add_columns"
    /\ result.status = "InvalidDataType"
    /\ "t1" \in DOMAIN tables
    /\ tables["t1"].columns = <<>>
    /\ Len(wal) = 1

----------------------------------------------------------------------------
(* Properties of the predicate search *)

\* C24: on a table in memory, a search whose condition has not exactly
\* three tokens, or whose operator is none of ==, <, <=, >, >=, succeeds
\* with no row.
C24_MalformedConditionEmpty ==
    [][\A parts \in YConds :
         (/\ "t1" \in DOMAIN tables
          /\ Len(parts) # 3 \/ parts[2] \notin {"==", "<", "<=", ">", ">="}
          /\ result'.op = "search_rows"
          /\ DoSearch("t1", parts, MaxTypedOps)) =>
           /\ result'.status = "Ok"
           /\ result'.payload = <<>>]_vars

C24_Witness ==
    /\ result.op = "search_rows"
    /\ result.status = "Ok"
    /\ result.payload = <<>>
    /\ "t1" \in DOMAIN tables
    /\ \E rid \in YRows : rid \in DOMAIN tables["t1"].rows
                           /\ tables["t1"].rows[rid] = [name |-> "a"]

\* The ages among 20, 40 and x that are numbers in the relation o to 30,
\* and the ones that are in the relation o to 30 as numbers or, for the
\* word x, as strings (x sorts after 30).
NumericallyMet(o) == IF o \in {">", ">="} THEN {"40"} ELSE {"20"}
NumericallyOrLexicallyMet(o) == IF o \in {">", ">="} THEN {"40", "x"} ELSE {"20"}

\* The ids of the rows of t1 whose age is in the set `ages`.
RowsWithAge(tbs, ages) ==
    {rid \in DOMAIN tbs["t1"].rows :
       "age" \in DOMAIN tbs["t1"].rows[rid] /\ tbs["t1"].rows[rid]["age"] \in ages}

SearchStep(o) ==
    /\ "t1" \in DOMAIN tables
    /\ result'.op = "search_rows"
    /\ DoSearch("t1", <<"age", o, "30">>, MaxSearchOps)

PayloadIds(r) == {r.payload[i].row_id : i \in DOMAIN r.payload}

\* C25 as stated: the search age o 30 returns only rows whose age is a
\* number in the relation o to 30.
C25_SearchNumericOnly ==
    [][\A o \in HOperators :
         SearchStep(o) => PayloadIds(result') \subseteq RowsWithAge(tables, NumericallyMet(o))]_vars

\* C25, amended: the search age o 30 returns exactly the rows whose age is
\* in the relation o to 30, as numbers when the age is a number and as
\* strings when it is not, each once: age > 30 over 20, 40 and x returns the
\* rows with 40 and with x.
C25_SearchNumericOrLexical ==
    [][\A o \in HOperators :
         SearchStep(o) =>
           /\ result'.status = "Ok"
           /\ PayloadIds(result') = RowsWithAge(tables, NumericallyOrLexicallyMet(o))
           /\ Len(result'.payload) = Cardinality(PayloadIds(result'))]_vars

C25_Witness ==
    /\ result.op = "search_rows"
    /\ "t1" \in DOMAIN tables
    /\ tables["t1"].rows = [r1 |-> [age |-> "20"], r2 |-> [age |-> "40"], r3 |-> [age |-> "x"]]
    /\ PayloadIds(result) = {"r2", "r3"}

----------------------------------------------------------------------------
(* Properties of the replay *)

\* The records of the log that are not malformed lines.
WellFormedRecords(recs) ==
    SelectSeq(recs, LAMBDA r : r.text \notin ShortLines \cup OtherBadLines)

\* C26: flush_wal never panics on a malformed record, and leaves the tables
\* as the replay of the well-formed records alone leaves them.
C26_MalformedRecordSkipped ==
    [][(result'.op = "flush_wal" /\ DoFlushWal(MaxForeignOps)) =>
         /\ result'.status = "Ok"
         /\ tables' = ReplayAll(tables, WellFormedRecords(wal)).tables]_vars

\* The replay of the record that the step appended to the in-memory log,
\* on the tables as they were before the step.
ReplayOfEmitted == ReplayEntry(tables, wal'[Len(wal')].text)

\* C28: the record that insert_row emits, replayed on the table without the
\* row, installs the row with the data of the call; the record that
\* update_row emits, replayed on the row, sets the column to the new value.
C28_EmittedRecordReplays ==
    [][/\ \A rid \in RRows, data \in RowsOver({"name"}, RVals) :
            (/\ "t1" \in DOMAIN tables
             /\ rid \notin DOMAIN tables["t1"].rows
             /\ result'.op = "insert_row"
             /\ result'.status = "Ok"
             /\ DoInsertRow("t1", rid, data, MaxReplayOps)) =>
              /\ ~ReplayOfEmitted.panic
              /\ rid \in DOMAIN ReplayOfEmitted.tables["t1"].rows
              /\ ReplayOfEmitted.tables["t1"].rows[rid] = data
       /\ \A rid \in RRows, v \in RVals :
            (/\ result'.op = "update_row"
             /\ result'.status = "Ok"
             /\ DoUpdateRow("t1", rid, "name", v, MaxReplayOps)) =>
              /\ ~ReplayOfEmitted.panic
              /\ "name" \in DOMAIN ReplayOfEmitted.tables["t1"].rows[rid]
              /\ ReplayOfEmitted.tables["t1"].rows[rid]["name"] = v]_vars

----------------------------------------------------------------------------
(* Properties of the binary file *)

\* C27: what read_database_from_binary reads from the file that
\* write_database_to_binary wrote is a database with the table names, the
\* column sequences, the row ids, the encrypted flags and the typed values
\* of the database that was written.
C27_BinaryRoundTrip ==
    binary.loaded # <<>> =>
      LET r == binary.loaded[1].read
          db == binary.loaded[1].of
      IN /\ r.ok
         /\ DOMAIN r.val = DOMAIN db
         /\ \A t \in DOMAIN db :
              /\ r.val[t].columns = db[t].columns
              /\ DOMAIN r.val[t].rows = DOMAIN db[t].rows
              /\ \A rid \in DOMAIN db[t].rows :
                   /\ r.val[t].rows[rid].encrypted = db[t].rows[rid].encrypted
                   /\ r.val[t].rows[rid].data = db[t].rows[rid].data

C27_Witness ==
    /\ binary.loaded # <<>>
    /\ binary.loaded[1].read.ok
    /\ \E t \in DOMAIN binary.loaded[1].of :
         /\ binary.loaded[1].of[t].columns = << <<110>>, <<109>> >>
         /\ \E rid \in DOMAIN binary.loaded[1].of[t].rows :
              /\ binary.loaded[1].of[t].rows[rid].encrypted
              /\ binary.loaded[1].read.val[t].rows[rid].data
                   = MapPut(MapPut(EmptyMap, <<110>>, [variant |-> "Int", v |-> <<0 - 2>>]),
                            <<109>>, [variant |-> "Text", v |-> <<>>])

\* The steps of one WAL engine cycle, in the order of the block.
CycleOrder ==
    {<<"idle", "persist">>, <<"persist", "replay">>, <<"replay", "commit">>,
     <<"commit", "idle">>}

\* The lines that the cycle in progress has appended to wal.log are the
\* in-memory log as it is now.
PersistedIsLog ==
    /\ Len(wal_log) >= Len(wal)
    /\ SubSeq(wal_log, Len(wal_log) - Len(wal) + 1, Len(wal_log)) = wal

\* C29: the lock has one holder at a time: it is held by the WAL engine
\* exactly while a cycle of that engine is in progress, and no step of a
\* caller or of the index engine happens then; a cycle is persist, replay,
\* commit in this order under one hold of the lock, released only with the
\* commit; nothing is added to the in-memory log between the persist and the
\* commit; while the index engine holds the lock the only step is the end
\* of its own block.
C29_OneLockHolder ==
    /\ [](lock \in {"free", "wal_engine", "index_engine"})
    /\ []((engine_pc # "idle") <=> (lock = "wal_engine"))
    /\ [](engine_pc \in {"replay", "commit"} => PersistedIsLog)
    /\ [][lock = "wal_engine" =>
            /\ engine_pc' # engine_pc
            /\ result' = result
            /\ indexer' = indexer /\ bloom_filter' = bloom_filter
            /\ sync' = sync]_vars
    /\ [][engine_pc' # engine_pc =>
            /\ <<engine_pc, engine_pc'>> \in CycleOrder
            /\ (lock' = "wal_engine") <=> (engine_pc' # "idle")
            /\ (lock' = "free") <=> (engine_pc' = "idle")]_vars
    /\ [][lock = "index_engine" =>
            /\ lock' = "free"
            /\ tables' = tables /\ wal' = wal /\ wal_log' = wal_log
            /\ engine_pc' = engine_pc /\ result' = result]_vars

\* A cycle at its commit, with a record that a caller logged before the
\* cycle took the lock, after a rebuild of the index engine.
C29_Witness ==
    /\ engine_pc = "commit"
    /\ lock = "wal_engine"
    /\ wal # <<>>
    /\ "t1" \in DOMAIN tables
    /\ indexer # <<>>

\* C30: once a thread has panicked with the lock held, the WAL engine still
\* takes the lock and runs persist, replay and commit, again and again; the
\* index engine's next attempt to take the lock ends that thread, which
\* happens, and from the panic on the index and the Bloom filter are never
\* rebuilt and the index engine never holds the lock.
C30_PoisonedLock ==
    /\ [][sync.poisoned =>
            /\ sync'.poisoned
            /\ indexer' = indexer /\ bloom_filter' = bloom_filter
            /\ lock' # "index_engine"
            /\ (sync' # sync => sync'.index_engine = "dead")]_vars
    /\ [](sync.index_engine = "dead" => sync.poisoned)
    /\ sync.poisoned ~> (sync.index_engine = "dead")
    /\ [](sync.poisoned => []<>(engine_pc = "persist" /\ lock = "wal_engine"))
    /\ (sync.poisoned /\ engine_pc = "persist") ~> (engine_pc = "replay")
    /\ (sync.poisoned /\ engine_pc = "replay") ~> (engine_pc = "commit")
    /\ (sync.poisoned /\ engine_pc = "commit") ~> (engine_pc = "idle" /\ lock = "free")

\* After a caller's panic: the index thread has ended at its next attempt,
\* and a cycle of the WAL engine is at its commit with a caller's record.
C30_Witness ==
    /\ sync.poisoned
    /\ sync.index_engine = "dead"
    /\ engine_pc = "commit"
    /\ lock = "wal_engine"
    /\ wal # <<>>
    /\ indexer # <<>>

----------------------------------------------------------------------------
(* Properties of the logs, the counter and the queries, second part *)

\* s is a prefix of t.
IsPrefix(s, t) == Len(s) <= Len(t) /\ SubSeq(t, 1, Len(s)) = s

\* C31: the commit of a cycle leaves the archive as it was, followed by the
\* records of the in-memory log in their order, and leaves the in-memory
\* log and wal.log empty; no step removes or rewrites a record that the
\* archive holds.
C31_CommitAppendsToArchive ==
    /\ [][(engine_pc = "commit" /\ EngineCommit) =>
            /\ wal_archive' = wal_archive \o wal
            /\ wal' = <<>>
            /\ wal_log' = <<>>]_vars
    /\ [][IsPrefix(wal_archive, wal_archive')]_vars

\* Two records in the archive, of which the second is not the table's
\* creation, after a commit.
C31_Witness ==
    /\ Len(wal_archive) >= 2
    /\ wal_archive[2].text[1] # "create_table"
    /\ wal = <<>>
    /\ wal_log = <<>>
    /\ engine_pc = "idle"

\* C32: with the writer attached, the records of wal.log are in the order of
\* the mutations that emitted them (the order of their numbers); so the
\* create_table record of a table is before every other record of that
\* table.
C32_WorkingLogInOperationOrder ==
    wal_writer =>
      \A i, j \in DOMAIN wal_log :
        i < j => wal_log[i].id < wal_log[j].id

\* A step of a caller that is one of the four mutations.
MutationStep ==
    \/ /\ result'.op = "create_table"
       /\ \E t \in STables : DoCreateTable(t, MaxOps)
    \/ /\ result'.op = "add_column"
       /\ \E t \in STables, c \in SCols : DoAddColumn(t, c, MaxOps)
    \/ /\ result'.op = "insert_row"
       /\ \E t \in STables, rid \in SRows, data \in RowsOver(SCols, SVals) :
            DoInsertRow(t, rid, data, MaxOps)
    \/ /\ result'.op = "update_row"
       /\ \E t \in STables, rid \in SRows, c \in SCols, v \in SVals :
            DoUpdateRow(t, rid, c, v, MaxOps)

\* One record more in the writer's queue and none in the in-memory log when
\* a writer is attached, the other way round when none is.
OneRecordEmitted ==
    IF wal_writer
    THEN Len(channel') = Len(channel) + 1 /\ wal' = wal
    ELSE Len(wal') = Len(wal) + 1 /\ channel' = channel

NoRecordEmitted == wal' = wal /\ channel' = channel

\* C33: a successful create_table, add_column, insert_row or update_row
\* emits exactly one record, to the writer when one is attached and to the
\* in-memory log otherwise; one that returns an error emits none.
C33_OneRecordPerMutation ==
    [][MutationStep =>
         IF result'.status = "Ok" THEN OneRecordEmitted ELSE NoRecordEmitted]_vars

\* C34: an update_row on a table that has no row of that id returns
\* RowDoesNotExist, leaves the table as it was, its columns included, and
\* emits no record.
C34_UpdateMissingRowNoEffect ==
    [][\A t \in STables, rid \in SRows, c \in SCols, v \in SVals :
         (/\ t \in DOMAIN tables
          /\ rid \notin DOMAIN tables[t].rows
          /\ result'.op = "update_row"
          /\ DoUpdateRow(t, rid, c, v, MaxOps))
         => /\ result'.status = "RowDoesNotExist"
            /\ tables'[t] = tables[t]
            /\ NoRecordEmitted]_vars

\* The ids of the rows of table t whose email is v.
RowsWithEmail(t, v) ==
    {rid \in DOMAIN tables[t].rows :
       "email" \in DOMAIN tables[t].rows[rid] /\ tables[t].rows[rid]["email"] = v}

\* C35: a find_rows_by_value_in_table(T, "email", v, true) that is answered
\* by the full scan returns the rows whose email is v, as the scan without
\* a Bloom filter does, whatever was inserted since the filter was built.
C35_ScanWithFilterFindsAll ==
    [][\A v \in BVals :
         (/\ "t1" \in DOMAIN tables
          /\ result'.op = "find_rows"
          /\ result'.status = "Ok"
          /\ DoFind("t1", "email", v, TRUE, MaxBloomOps))
         => PayloadIds(result') = RowsWithEmail("t1", v)]_vars

\* C36: a find_rows_by_value_in_table on a column other than the indexed
\* one ("name") is not answered from the index: every row it returns has
\* the value in the queried column.
C36_IndexOnlyForIndexedColumn ==
    [][\A c \in CCols \ {"name"}, v \in CVals, many \in BOOLEAN :
         (/\ "t1" \in DOMAIN tables
          /\ result'.op = "find_rows"
          /\ DoFind("t1", c, v, many, MaxColumnOps))
         => PayloadIds(result') \subseteq Matching("t1", c, v)]_vars

\* C37: hash1 never faults on an overflow, whatever the length of the
\* string, so the block of the index engine, which hashes the email of
\* every row, always runs to its end: it leaves a Bloom filter and the
\* Mutex as it was, the index thread alive.
C37_RebuildNeverFaults ==
    [][lock = "index_engine" =>
         /\ sync' = sync
         /\ bloom_filter' # <<>>
         /\ \A e \in Emails(tables) : ~HashPanics(e, overflow_checks)]_vars

\* C38: after every call operations_since_save is at least 0 and below
\* save_threshold; a successful insert_row adds 1 to it, or resets it to 0
\* with the save it triggers; no other call changes it.
C38_CounterCountsInsertions ==
    /\ [](operations_since_save >= 0 /\ operations_since_save < save_threshold)
    /\ [][MutationStep =>
            IF result'.op = "insert_row" /\ result'.status = "Ok"
            THEN operations_since_save' =
                   (IF operations_since_save + 1 >= save_threshold
                    THEN 0 ELSE operations_since_save + 1)
            ELSE operations_since_save' = operations_since_save]_vars

----------------------------------------------------------------------------
(* Properties of the LSM tree, checked under SpecLsm *)

\* The value of the most recent insert of `key` among the calls `calls`,
\* <<>> when there is none.
RECURSIVE LastInserted(_, _)
LastInserted(calls, key) ==
    IF calls = <<>> THEN <<>>
    ELSE IF calls[Len(calls)][1] = key THEN <<calls[Len(calls)][2]>>
    ELSE LastInserted(SubSeq(calls, 1, Len(calls) - 1), key)

\* C39: after any sequence of inserts, get(k) returns the value of the most
\* recent insert of k, for every key that was inserted.
C39_GetReturnsLastInsert ==
    (lsm.got # <<>> /\ LastInserted(lsm.inserted, lsm.got[1].key) # <<>>)
      => lsm.got[1].ret = LastInserted(lsm.inserted, lsm.got[1].key)

====
